---- MODULE Spec2Model ----
(***************************************************************************)
(* Model of the stechuhr time-tracking program: the time-bucket allocator  *)
(* (tabs/statistics/time_eval.rs) and the per-member event processor       *)
(* (tabs/statistics/event_eval.rs).                                        *)
(*                                                                         *)
(* Timestamps (chrono::NaiveDateTime) are whole seconds counted from       *)
(* midnight of day 0; num_seconds_from_midnight and num_seconds drop the   *)
(* fraction of a second, which the allocator never reads.  A WorkDuration  *)
(* is the triple of its three chrono::Duration values, in seconds.         *)
(***************************************************************************)
EXTENDS Integers, Sequences, FiniteSets, TLC

\* ------------------------------------------------------------------------
\* Bounds of the model
\* ------------------------------------------------------------------------

\* allocator inputs lie on days 0..MaxDay
MaxDay == 2

\* allocator inputs lie within Jitter seconds of the sampled hours
Jitter == 1

\* longest generated event slice given to the event processor
MaxEvents == 3

\* generated events are stamped period start + k * GridStep, k in 0..MaxTick
MaxTick == 3

\* events in a log read by load_state
MaxLog == 3

\* events of the period given to a report
MaxReportEvents == 3

\* events before the period given to a report
MaxPrevious == 1

\* rows inserted into the events table
MaxRows == 3

\* the rows are stamped period start + k seconds, k in 0..MaxStamp
MaxStamp == 3

\* messages handled by the application in one run
MaxMessages == 3

\* the number of messages handled in a run with tab switches
MaxTabMessages == 6

\* years of the selected dates, from FirstYear on
MaxYears == 2

\* ------------------------------------------------------------------------
\* time_eval.rs : DurationSMLabel
\* ------------------------------------------------------------------------

SECS_PER_HOUR == 60 * 60

SECS_PER_DAY == 24 * SECS_PER_HOUR

DurationSMLabels == <<"L4_20", "L20_24", "L24_4">>

to_duration_seconds_Evening2h(label) ==
    CASE label = "L4_20"  -> (20 - 4) * SECS_PER_HOUR
      [] label = "L20_24" -> (24 - 22) * SECS_PER_HOUR
      [] label = "L24_4"  -> (4 - 0) * SECS_PER_HOUR

to_duration_seconds(label) ==
    CASE label = "L4_20"  -> (20 - 4) * SECS_PER_HOUR
      [] label = "L20_24" -> (24 - 20) * SECS_PER_HOUR
      [] label = "L24_4"  -> (4 - 0) * SECS_PER_HOUR

to_start_seconds(label) ==
    CASE label = "L4_20"  -> 4 * SECS_PER_HOUR
      [] label = "L20_24" -> 20 * SECS_PER_HOUR
      [] label = "L24_4"  -> 0 * SECS_PER_HOUR

from_absolute_seconds_Swapped(s) ==
    IF s < 4 * SECS_PER_HOUR THEN "L24_4"
    ELSE IF s < 20 * SECS_PER_HOUR THEN "L20_24"
    ELSE "L4_20"

from_absolute_seconds(s) ==
    IF s < 4 * SECS_PER_HOUR THEN "L24_4"
    ELSE IF s < 20 * SECS_PER_HOUR THEN "L4_20"
    ELSE "L20_24"

\* ------------------------------------------------------------------------
\* time_eval.rs : DurationSM
\* ------------------------------------------------------------------------

DurationSM_new(start_seconds) ==
    LET label == from_absolute_seconds(start_seconds)
    IN  [buckets |-> <<0, 0, 0>>,
         label |-> label,
         current_seconds |-> start_seconds - to_start_seconds(label)]

next_step_Stuck(sm) ==
    [sm EXCEPT !.label =
        CASE sm.label = "L4_20"  -> "L20_24"
          [] sm.label = "L20_24" -> "L24_4"
          [] sm.label = "L24_4"  -> "L24_4"]

next_step(sm) ==
    [sm EXCEPT !.label =
        CASE sm.label = "L4_20"  -> "L20_24"
          [] sm.label = "L20_24" -> "L24_4"
          [] sm.label = "L24_4"  -> "L4_20"]

get_current_seconds(sm) ==
    to_duration_seconds(sm.label) - sm.current_seconds

bucket_index(label) ==
    CASE label = "L4_20"  -> 1
      [] label = "L20_24" -> 2
      [] label = "L24_4"  -> 3

DurationSM_add_time(sm, s) ==
    [sm EXCEPT !.buckets[bucket_index(sm.label)] = @ + s,
               !.current_seconds = 0]

to_work_duration(sm) == sm.buckets

\* ------------------------------------------------------------------------
\* time_eval.rs : WorkDuration
\* ------------------------------------------------------------------------

WorkDuration_zero == <<0, 0, 0>>

\* Duration::checked_add fails only beyond chrono's Duration::max_value
\* (about 2^63 milliseconds), far outside the modelled range of timestamps,
\* so every sum of the model is the Ok case.
checked_add(self, rhs) ==
    <<rhs[1] + self[1], rhs[2] + self[2], rhs[3] + self[3]>>

Min(a, b) == IF a < b THEN a ELSE b

num_seconds_from_midnight(t) == t % SECS_PER_DAY

\* the chunk taken by one iteration of the while loop
loop_chunk_NoMin(seconds_remaining, sm) == get_current_seconds(sm)

loop_chunk(seconds_remaining, sm) ==
    Min(seconds_remaining, get_current_seconds(sm))

initial_seconds_remaining_EndExcluded(start_time, end_time) ==
    end_time - start_time

\* seconds to distribute: "add one second since we're including the end"
initial_seconds_remaining(start_time, end_time) ==
    (end_time - start_time) + 1

RECURSIVE allocate_loop(_, _)
allocate_loop(seconds_remaining, sm) ==
    IF seconds_remaining > 0
    THEN LET s == loop_chunk(seconds_remaining, sm)
         IN  allocate_loop(seconds_remaining - s,
                           next_step(DurationSM_add_time(sm, s)))
    ELSE sm

\* defined for start_time < end_time (the assert! of the code)
from_start_end_time(start_time, end_time) ==
    to_work_duration(
        allocate_loop(initial_seconds_remaining(start_time, end_time),
                      DurationSM_new(num_seconds_from_midnight(start_time))))

num_minutes(d) == <<d[1] \div 60, d[2] \div 60, d[3] \div 60>>

\* ------------------------------------------------------------------------
\* models.rs : WorkEvent, WorkEventT
\* ------------------------------------------------------------------------

NoUuid == 0

\* WorkEvent::StatusChange(uuid, name, status) stamped created_at; the name
\* snapshot is not read by the processor
StatusChange(created_at, uuid, status) ==
    [created_at |-> created_at, kind |-> "StatusChange", uuid |-> uuid, status |-> status]

\* the variants without payload read by the processor: EventStart,
\* EventOver, _6am ("6am"), Info, Error
PlainEvent(created_at, kind) ==
    [created_at |-> created_at, kind |-> kind, uuid |-> NoUuid, status |-> "None"]

\* ------------------------------------------------------------------------
\* event_eval.rs : EventSM
\* ------------------------------------------------------------------------

NoTime == 0 - 1

LabelAway == [tag |-> "Away", start_time |-> NoTime]

LabelWorking(t) == [tag |-> "Working", start_time |-> t]

SoftError(tag, at, name) == [tag |-> tag, at |-> at, name |-> name]

EventSM_new(staff_member, initial_start_time) ==
    [hours_raw |-> [staff_member |-> staff_member, duration |-> WorkDuration_zero],
     soft_errors |-> <<>>,
     label |-> IF initial_start_time # NoTime
               THEN LabelWorking(initial_start_time)
               ELSE LabelAway]

append_soft_error(sm, error) ==
    [sm EXCEPT !.soft_errors = Append(@, error)]

Ok(sm) == [outcome |-> "Ok", sm |-> sm]

\* the assert! of from_start_end_time fails: the thread panics
Panic(sm) == [outcome |-> "Panic", sm |-> sm]

EventSM_add_time(sm, start_time, end_time) ==
    IF start_time < end_time
    THEN Ok([sm EXCEPT !.hours_raw.duration =
                checked_add(@, from_start_end_time(start_time, end_time))])
    ELSE Panic(sm)

is_own_AnyMember(sm, event) == event.kind = "StatusChange"

\* StatusChange(uuid, _, _) if self.hours_raw.staff_member.uuid() == uuid
is_own(sm, event) ==
    /\ event.kind = "StatusChange"
    /\ sm.hours_raw.staff_member.uuid = event.uuid

\* Away, StatusChange to Working of this member
away_to_working(sm, event) ==
    Ok([sm EXCEPT !.label = LabelWorking(event.created_at)])

already_away_Silent(sm, event) == Ok(sm)

\* Away, StatusChange to Away of this member
already_away(sm, event) ==
    Ok(append_soft_error(sm,
        SoftError("AlreadyAway", event.created_at, sm.hours_raw.staff_member.name)))

working_to_away_NoCredit(sm, event) ==
    Ok([sm EXCEPT !.label = LabelAway])

\* Working(start_time), StatusChange to Away of this member
working_to_away(sm, event) ==
    LET added == EventSM_add_time(sm, sm.label.start_time, event.created_at)
    IN  IF added.outcome = "Ok"
        THEN Ok([added.sm EXCEPT !.label = LabelAway])
        ELSE added

already_working_Restart(sm, event) ==
    Ok([append_soft_error(sm,
            SoftError("AlreadyWorking", event.created_at, sm.hours_raw.staff_member.name))
        EXCEPT !.label = LabelWorking(event.created_at)])

\* Working(start_time), StatusChange to Working of this member
already_working(sm, event) ==
    Ok(append_soft_error(sm,
        SoftError("AlreadyWorking", event.created_at, sm.hours_raw.staff_member.name)))

still_working_StaysWorking(sm, event) ==
    LET noted == append_soft_error(sm,
                    SoftError("StaffStillWorking", event.created_at,
                              sm.hours_raw.staff_member.name))
    IN  EventSM_add_time(noted, sm.label.start_time, event.created_at)

\* Working(start_time), _6am
still_working(sm, event) ==
    LET noted == append_soft_error(sm,
                    SoftError("StaffStillWorking", event.created_at,
                              sm.hours_raw.staff_member.name))
        added == EventSM_add_time(noted, sm.label.start_time, event.created_at)
    IN  IF added.outcome = "Ok"
        THEN Ok([added.sm EXCEPT !.label = LabelAway])
        ELSE added

process_away_AnomalyFatal(sm, event) ==
    IF is_own(sm, event) /\ event.status = "Working" THEN away_to_working(sm, event)
    ELSE IF is_own(sm, event) /\ event.status = "Away" THEN Panic(sm)
    ELSE Ok(sm)

\* match arm EventSMLabel::Away
process_away(sm, event) ==
    IF is_own(sm, event) /\ event.status = "Working" THEN away_to_working(sm, event)
    ELSE IF is_own(sm, event) /\ event.status = "Away" THEN already_away(sm, event)
    ELSE Ok(sm)

process_working_EventOverCloses(sm, event) ==
    IF is_own(sm, event) /\ event.status = "Away" THEN working_to_away(sm, event)
    ELSE IF is_own(sm, event) /\ event.status = "Working" THEN already_working(sm, event)
    ELSE IF event.kind = "6am" THEN still_working(sm, event)
    ELSE IF event.kind = "EventOver" THEN working_to_away(sm, event)
    ELSE Ok(sm)

\* match arm EventSMLabel::Working(start_time)
process_working(sm, event) ==
    IF is_own(sm, event) /\ event.status = "Away" THEN working_to_away(sm, event)
    ELSE IF is_own(sm, event) /\ event.status = "Working" THEN already_working(sm, event)
    ELSE IF event.kind = "6am" THEN still_working(sm, event)
    ELSE Ok(sm)

process_InfoSignsOff(sm, event) ==
    IF event.kind = "Info" THEN Ok([sm EXCEPT !.label = LabelAway])
    ELSE IF sm.label.tag = "Away"
    THEN process_away(sm, event)
    ELSE process_working(sm, event)

process(sm, event) ==
    IF sm.label.tag = "Away"
    THEN process_away(sm, event)
    ELSE process_working(sm, event)

finish(sm) == [hours_raw |-> sm.hours_raw, soft_errors |-> sm.soft_errors]

\* evaluate_hours_for_staff_member: the initial state of the processor
initial_start_time(staff_member, start_time) ==
    IF staff_member.status = "Working" THEN start_time ELSE NoTime

\* evaluate_hours_for_staff_member: `for event in events { process(event)?; }`
RECURSIVE process_all(_, _)
process_all(sm, slice) ==
    IF slice = <<>>
    THEN Ok(sm)
    ELSE LET r == process(sm, Head(slice))
         IN  IF r.outcome = "Ok" THEN process_all(r.sm, Tail(slice)) ELSE r

\* evaluate_hours_for_staff_member: Ok((hours, soft_errors)), or the panic
\* of the allocator
evaluate_hours_for_staff_member(staff_member, events, start_time) ==
    LET r == process_all(
                EventSM_new(staff_member, initial_start_time(staff_member, start_time)),
                events)
    IN  IF r.outcome = "Ok"
        THEN [outcome |-> "Ok", value |-> finish(r.sm)]
        ELSE [outcome |-> r.outcome]

\* ------------------------------------------------------------------------
\* db.rs : the status of the staff computed from the events
\* ------------------------------------------------------------------------

\* the timestamps of this part keep half seconds: Local::now() and the
\* created_at column carry the part of a second, and the comparisons of
\* staff_member_compute_status see it
TicksPerSecond == 2

TICKS_PER_HOUR == SECS_PER_HOUR * TicksPerSecond

TICKS_PER_DAY == SECS_PER_DAY * TicksPerSecond

\* NaiveDateTime::hour
hour(t) == (t % TICKS_PER_DAY) \div TICKS_PER_HOUR

\* NaiveDateTime::with_hour: the hour is replaced; minute, second and the
\* part of a second stay
with_hour(t, h) == (t - hour(t) * TICKS_PER_HOUR) + h * TICKS_PER_HOUR

_6am_boundary_AlwaysDayBefore(current_time) ==
    with_hour(current_time - TICKS_PER_DAY, 6)

\* let _6am_boundary = if current_time.hour() >= 6 { .. } else { .. }
_6am_boundary(current_time) ==
    IF hour(current_time) >= 6
    THEN with_hour(current_time, 6)
    ELSE with_hour(current_time - TICKS_PER_DAY, 6)

DBStaffMember(uuid, name, is_visible) ==
    [uuid |-> uuid, name |-> name, is_visible |-> is_visible]

with_status(staff_member, status) ==
    [uuid |-> staff_member.uuid,
     name |-> staff_member.name,
     is_visible |-> staff_member.is_visible,
     status |-> status]

decide_6amEventDecides(staff_member, eventt, boundary) ==
    IF eventt.kind = "StatusChange" /\ eventt.uuid = staff_member.uuid
    THEN eventt.status
    ELSE IF eventt.kind = "6am" THEN "Away"
    ELSE "Continue"

\* the body of `for eventt in events.iter().rev()`: the status returned at
\* this event, or "Continue" when the loop goes on to the next older event
decide(staff_member, eventt, boundary) ==
    IF eventt.created_at < boundary THEN "Away"
    ELSE IF eventt.kind = "StatusChange" /\ eventt.uuid = staff_member.uuid
    THEN eventt.status
    ELSE IF eventt.kind = "EventOver" THEN "Away"
    ELSE "Continue"

default_status_Working == "Working"

\* the return after the loop
default_status == "Away"

\* events.iter().rev() from event i down to the oldest
RECURSIVE scan_rev(_, _, _, _)
scan_rev(staff_member, log, boundary, i) ==
    IF i = 0
    THEN default_status
    ELSE LET d == decide(staff_member, log[i], boundary)
         IN  IF d # "Continue" THEN d ELSE scan_rev(staff_member, log, boundary, i - 1)

staff_member_compute_status(staff_member, log, current_time) ==
    with_status(staff_member,
                scan_rev(staff_member, log, _6am_boundary(current_time), Len(log)))

staff_compute_status(staff, log, current_time) ==
    [i \in 1..Len(staff) |-> staff_member_compute_status(staff[i], log, current_time)]

\* ------------------------------------------------------------------------
\* db.rs : the events table and its loaders
\* ------------------------------------------------------------------------

\* WorkEventT { id, created_at, event }
WorkEventT(id, event) ==
    [id |-> id, created_at |-> event.created_at, kind |-> event.kind,
     uuid |-> event.uuid, status |-> event.status]

insert_event_Overwrite(table, new_event) ==
    IF table = <<>>
    THEN Append(table, WorkEventT(1, new_event))
    ELSE [table EXCEPT ![Len(table)] = WorkEventT(Len(table), new_event)]

\* insert_event: the new row gets the next id of the table
insert_event(table, new_event) ==
    Append(table, WorkEventT(Len(table) + 1, new_event))

\* order_by(created_at.asc()): the rows in an order ascending in
\* created_at; SQL leaves the order of rows with equal created_at open, so
\* every such order is a possible result
order_by_created_at(rows) ==
    { q \in [1..Cardinality(rows) -> rows] :
        /\ \A i, j \in 1..Cardinality(rows) : i # j => q[i] # q[j]
        /\ \A i, j \in 1..Cardinality(rows) : i < j => q[i].created_at <= q[j].created_at }

\* load_events: every row of the table
load_events(table) ==
    order_by_created_at({ table[i] : i \in 1..Len(table) })

in_range_ClosedEnd(row, start_time, end_time) ==
    row.created_at >= start_time /\ row.created_at <= end_time

\* filter(created_at.ge(start_time)).filter(created_at.lt(end_time))
in_range(row, start_time, end_time) ==
    row.created_at >= start_time /\ row.created_at < end_time

load_events_between(table, start_time, end_time) ==
    order_by_created_at({ table[i] : i \in { k \in 1..Len(table) :
                                                in_range(table[k], start_time, end_time) } })

\* load_events_between(None, Some(end_time)): no bound on the side of the
\* start
load_events_before(table, end_time) ==
    order_by_created_at({ table[i] : i \in { k \in 1..Len(table) :
                                                table[k].created_at < end_time } })

\* ------------------------------------------------------------------------
\* event_eval.rs : evaluate_hours_for_time, evaluate_hours_for_events
\* ------------------------------------------------------------------------

\* staff_member_compute_status(staff_member, &previous_events): the status
\* by the events before the period, scanned from the newest to the oldest;
\* a StatusChange of the member gives its status, a day-boundary event
\* Away, and the end of the scan Away
RECURSIVE status_before(_, _, _)
status_before(staff_member, previous_events, i) ==
    IF i = 0 THEN "Away"
    ELSE IF /\ previous_events[i].kind = "StatusChange"
            /\ previous_events[i].uuid = staff_member.uuid
         THEN previous_events[i].status
    ELSE IF previous_events[i].kind = "6am" THEN "Away"
    ELSE status_before(staff_member, previous_events, i - 1)

compute_status(staff_member, previous_events) ==
    with_status(staff_member,
                status_before(staff_member, previous_events, Len(previous_events)))

\* PersonHoursCSV::from: the row of a member, the name and the minutes of
\* the three buckets
PersonHoursCSV_from(hours_raw) ==
    [name |-> hours_raw.staff_member.name, minutes |-> num_minutes(hours_raw.duration)]

\* soft_errors.into_iter().flatten().collect()
RECURSIVE flatten(_)
flatten(lists) ==
    IF lists = <<>> THEN <<>> ELSE Head(lists) \o flatten(Tail(lists))

initial_statuses_AllAway(raw_staff, previous_events) ==
    [i \in 1..Len(raw_staff) |-> with_status(raw_staff[i], "Away")]

\* raw_staff mapped by staff_member_compute_status over previous_events
initial_statuses(raw_staff, previous_events) ==
    [i \in 1..Len(raw_staff) |-> compute_status(raw_staff[i], previous_events)]

evaluate_hours_for_events(raw_staff, events, previous_events, start_time) ==
    LET staff == initial_statuses(raw_staff, previous_events)
        results == [i \in 1..Len(staff) |->
                        evaluate_hours_for_staff_member(staff[i], events, start_time)]
    IN  IF \E i \in 1..Len(staff) : results[i].outcome # "Ok"
        THEN [outcome |-> "Panic"]
        ELSE [outcome |-> "Ok",
              hours_csv |-> [i \in 1..Len(staff) |->
                                PersonHoursCSV_from(results[i].value.hours_raw)],
              soft_errors |-> flatten([i \in 1..Len(staff) |->
                                          results[i].value.soft_errors])]

visible_staff_Everyone(staff) ==
    [i \in 1..Len(staff) |->
        DBStaffMember(staff[i].uuid, staff[i].name, staff[i].is_visible)]

\* shared.staff filtered by is_visible and turned into DBStaffMember
visible_staff(staff) ==
    LET visible == SelectSeq(staff, LAMBDA m : m.is_visible)
    IN  [i \in 1..Len(visible) |->
            DBStaffMember(visible[i].uuid, visible[i].name, visible[i].is_visible)]

evaluate_hours_for_time_AwayOnly(staff, previous_events, events, start_time) ==
    evaluate_hours_for_events(
        visible_staff(SelectSeq(staff, LAMBDA m : m.status = "Away")),
        events, previous_events, start_time)

\* evaluate_hours_for_time with the two slices that the loads returned
evaluate_hours_for_time(staff, previous_events, events, start_time) ==
    evaluate_hours_for_events(visible_staff(staff), events, previous_events, start_time)

\* ------------------------------------------------------------------------
\* Reference: seconds of a span by time of day
\* ------------------------------------------------------------------------

Clamp(x, lo, hi) == IF x < lo THEN lo ELSE IF x > hi THEN hi ELSE x

\* number of seconds s with 0 <= s < x whose time of day lies in the bucket
\* of the given label
SecondsBefore(label, x) ==
    (x \div SECS_PER_DAY) * to_duration_seconds(label)
    + Clamp((x % SECS_PER_DAY) - to_start_seconds(label),
            0, to_duration_seconds(label))

\* number of seconds s with from <= s < to whose time of day lies in bucket k
SecondsInSpan(k, from, to) ==
    SecondsBefore(DurationSMLabels[k], to) - SecondsBefore(DurationSMLabels[k], from)

\* the bucket in which the second t lies
TimeOfDayBucket(t) == CHOOSE k \in 1..3 : SecondsInSpan(k, t, t + 1) = 1

UnitDuration(k) == [i \in 1..3 |-> IF i = k THEN 1 ELSE 0]

Total(d) == d[1] + d[2] + d[3]

\* ------------------------------------------------------------------------
\* State
\* ------------------------------------------------------------------------

VARIABLES
    a_pc,       \* allocator harness: "input" or "done"
    a_start,    \* start_time given to from_start_end_time
    a_mid,      \* a timestamp strictly between a_start and a_end
    a_end,      \* end_time given to from_start_end_time
    a_whole,    \* from_start_end_time(a_start, a_end)
    a_left,     \* from_start_end_time(a_start, a_mid)
    a_right,    \* from_start_end_time(a_mid, a_end)
    staff_member, \* evaluate_hours_for_staff_member: the member evaluated
    start_time, \* evaluate_hours_for_staff_member: start of the period
    events,     \* the events of the slice that the for loop has read
    event_sm,   \* the EventSM
    pc,         \* "idle", "loop", "finished" or "panicked"
    s_pc,       \* load_state: "idle", "log" or "loaded"
    s_log,      \* the events of the log as load_events returns them
    s_now,      \* load_state: current_time
    s_staff,    \* load_state: the staff with the computed status
    d_pc,       \* event log: "idle", "open" or "loaded"
    d_table,    \* the rows of the events table, in insertion order
    d_start,    \* start_time given to the loaders
    d_end,      \* end_time given to the loaders
    d_all,      \* what load_events returned
    d_previous, \* what the load of the events before d_start returned
    d_between,  \* what load_events_between(d_start, d_end) returned
    r_pc,       \* report: "idle", "input", "done", "again" or "restatused"
    r_staff,    \* shared.staff
    r_previous, \* the events loaded before the period start
    r_events,   \* the events loaded for the period
    r_result,   \* what evaluate_hours_for_time returned
    r_again,    \* what a second evaluation returned
    app_current_time,      \* shared.current_time, in ticks
    app_staff,             \* shared.staff
    app_staff_table,       \* the rows of the staff table
    app_events,            \* the rows of the events table
    app_break_input_value, \* TimetrackTab::break_input_value
    app_break_input_uuid,  \* TimetrackTab::break_input_uuid, NoUuid for None
    app_member_states,     \* StaffState::member_states
    app_new_row,           \* ManagementTab::new_name_value, new_pin_value, new_cardid_value
    app_delete_idx,        \* ManagementTab::delete_idx, 0 for None
    app_result,            \* what the last update_result returned
    app_messages,          \* the number of messages that the run still handles
    app_active_tab,        \* active_tab
    app_authorized,        \* management.authorized
    app_prompt_shown,      \* prompt_modal_state.is_shown()
    app_should_exit,       \* should_exit
    m_pc,                  \* evaluate_hours_for_month: "idle", "input" or "done"
    m_date,                \* the selected date
    m_start,               \* start_time, in hours since the first day of FirstYear
    m_end,                 \* end_time, in hours since the first day of FirstYear
    l_pc,                  \* from_start_end_time: "idle", "loop" or "done"
    l_start,               \* start_time
    l_end,                 \* end_time
    l_seconds_remaining,   \* seconds_remaining
    l_sm,                  \* sm, the DurationSM
    h_heap,                \* the events in a BinaryHeap<WorkEventT>
    h_popped               \* the events popped from it, in the order of the pops

allocVars == <<a_pc, a_start, a_mid, a_end, a_whole, a_left, a_right>>

evalVars == <<staff_member, start_time, events, event_sm, pc>>

statusVars == <<s_pc, s_log, s_now, s_staff>>

logVars == <<d_pc, d_table, d_start, d_end, d_all, d_previous, d_between>>

reportVars == <<r_pc, r_staff, r_previous, r_events, r_result, r_again>>

appVars == <<app_current_time, app_staff, app_staff_table, app_events,
             app_break_input_value, app_break_input_uuid, app_member_states,
             app_new_row, app_delete_idx, app_result, app_messages,
             app_prompt_shown, app_should_exit, app_active_tab, app_authorized>>

monthVars == <<m_pc, m_date, m_start, m_end>>

loopVars == <<l_pc, l_start, l_end, l_seconds_remaining, l_sm>>

heapVars == <<h_heap, h_popped>>

vars == <<allocVars, evalVars, statusVars, logVars, reportVars, appVars, monthVars, loopVars, heapVars>>

\* ------------------------------------------------------------------------
\* The allocator applied to sampled timestamps
\* ------------------------------------------------------------------------

SampledHours == {0, 4, 5, 6, 12, 20}

AllocTimes ==
    { t \in { d * SECS_PER_DAY + h * SECS_PER_HOUR + j :
                d \in 0..MaxDay, h \in SampledHours, j \in (0 - Jitter)..Jitter } :
      t >= 0 }

AllocIdle ==
    /\ a_pc = "idle"
    /\ a_start = 0
    /\ a_mid = 0
    /\ a_end = 0
    /\ a_whole = WorkDuration_zero
    /\ a_left = WorkDuration_zero
    /\ a_right = WorkDuration_zero

NoMember == [uuid |-> NoUuid, name |-> "", status |-> "Away"]

EvalIdle ==
    /\ staff_member = NoMember
    /\ start_time = 0
    /\ events = <<>>
    /\ event_sm = EventSM_new(NoMember, NoTime)
    /\ pc = "idle"

StatusIdle ==
    /\ s_pc = "idle"
    /\ s_log = <<>>
    /\ s_now = 0
    /\ s_staff = <<>>

LogIdle ==
    /\ d_pc = "idle"
    /\ d_table = <<>>
    /\ d_start = 0
    /\ d_end = 0
    /\ d_all = <<>>
    /\ d_previous = <<>>
    /\ d_between = <<>>

ReportIdle ==
    /\ r_pc = "idle"
    /\ r_staff = <<>>
    /\ r_previous = <<>>
    /\ r_events = <<>>
    /\ r_result = [outcome |-> "None"]
    /\ r_again = [outcome |-> "None"]

AppIdle ==
    /\ app_current_time = 0
    /\ app_staff = <<>>
    /\ app_staff_table = <<>>
    /\ app_events = <<>>
    /\ app_break_input_value = <<>>
    /\ app_break_input_uuid = NoUuid
    /\ app_member_states = <<>>
    /\ app_new_row = <<>>
    /\ app_delete_idx = 0
    /\ app_result = "Ok"
    /\ app_messages = 0
    /\ app_prompt_shown = FALSE
    /\ app_should_exit = FALSE
    /\ app_active_tab = "Timetrack"
    /\ app_authorized = FALSE

MonthIdle ==
    /\ m_pc = "idle"
    /\ m_date = [year |-> 0, month |-> 0, day |-> 0]
    /\ m_start = 0
    /\ m_end = 0

LoopIdle ==
    /\ l_pc = "idle"
    /\ l_start = 0
    /\ l_end = 0
    /\ l_seconds_remaining = 0
    /\ l_sm = DurationSM_new(0)

HeapIdle ==
    /\ h_heap = {}
    /\ h_popped = <<>>

InitAlloc ==
    /\ EvalIdle
    /\ StatusIdle
    /\ LogIdle
    /\ ReportIdle
    /\ AppIdle
    /\ MonthIdle
    /\ LoopIdle
    /\ HeapIdle
    /\ a_pc = "input"
    /\ a_start \in AllocTimes
    /\ a_mid \in AllocTimes
    /\ a_end \in AllocTimes
    /\ a_start < a_mid
    /\ a_mid < a_end
    /\ a_whole = WorkDuration_zero
    /\ a_left = WorkDuration_zero
    /\ a_right = WorkDuration_zero

Allocate ==
    /\ a_pc = "input"
    /\ a_pc' = "done"
    /\ a_whole' = from_start_end_time(a_start, a_end)
    /\ a_left' = from_start_end_time(a_start, a_mid)
    /\ a_right' = from_start_end_time(a_mid, a_end)
    /\ UNCHANGED <<a_start, a_mid, a_end>>
    /\ UNCHANGED <<evalVars, statusVars, logVars, reportVars, appVars, monthVars, loopVars, heapVars>>

NextAlloc == Allocate

SpecAlloc == InitAlloc /\ [][NextAlloc]_vars

\* ------------------------------------------------------------------------
\* The event processor run over one member's slice of events
\* ------------------------------------------------------------------------

\* the member evaluated, and another member of the staff
OwnUuid == 1

OtherUuid == 2

Statuses == {"Away", "Working"}

\* start of the evaluated period: 6am (evaluate_hours_for_month)
PeriodStart == 6 * SECS_PER_HOUR

GridStep == 8 * SECS_PER_HOUR - 1

EvalTimes == { PeriodStart + k * GridStep : k \in 0..MaxTick }

\* end of the evaluated period: 6am some days later (evaluate_hours_for_month);
\* every event of the slice is stamped before it
PeriodEnd == PeriodStart + MaxDay * SECS_PER_DAY

EventsAt(t) ==
    { StatusChange(t, u, st) : u \in {OwnUuid, OtherUuid}, st \in Statuses }
    \cup { PlainEvent(t, k) : k \in {"EventStart", "EventOver", "6am", "Info", "Error"} }

\* the events of the test normal_worktime, with day 0 for 2000-01-01
NormalWorktime ==
    << StatusChange(18 * SECS_PER_HOUR, OwnUuid, "Working"),
       StatusChange(20 * SECS_PER_HOUR + 30 * 60, OwnUuid, "Away"),
       StatusChange(23 * SECS_PER_HOUR, OwnUuid, "Working"),
       StatusChange(SECS_PER_DAY + 2 * SECS_PER_HOUR, OwnUuid, "Away"),
       StatusChange(SECS_PER_DAY + 3 * SECS_PER_HOUR, OwnUuid, "Working"),
       StatusChange(SECS_PER_DAY + 5 * SECS_PER_HOUR, OwnUuid, "Away") >>

IsPrefix(p, q) ==
    /\ Len(p) <= Len(q)
    /\ \A i \in 1..Len(p) : p[i] = q[i]

LastStamp(slice) ==
    IF slice = <<>> THEN PeriodStart ELSE slice[Len(slice)].created_at

\* the events that may follow in the slice after those already read: the
\* slice is ordered by created_at (load_events_between) and starts at the
\* period start; it is a generated slice of at most MaxEvents events or the
\* slice of normal_worktime
NextEvents(read) ==
    (IF Len(read) < MaxEvents
     THEN UNION { EventsAt(t) : t \in { x \in EvalTimes : x >= LastStamp(read) } }
     ELSE {})
    \cup
    (IF Len(read) < Len(NormalWorktime) /\ IsPrefix(read, NormalWorktime)
     THEN { NormalWorktime[Len(read) + 1] }
     ELSE {})

InitEval ==
    /\ AllocIdle
    /\ StatusIdle
    /\ LogIdle
    /\ ReportIdle
    /\ AppIdle
    /\ MonthIdle
    /\ LoopIdle
    /\ HeapIdle
    /\ staff_member \in { [uuid |-> OwnUuid, name |-> "Aaron", status |-> st] : st \in Statuses }
    /\ start_time = PeriodStart
    /\ events = <<>>
    /\ event_sm = EventSM_new(staff_member, initial_start_time(staff_member, start_time))
    /\ pc = "loop"

\* one iteration of `for event in events { event_sm.process(event)?; }` on
\* the next event of the slice
Process ==
    /\ pc = "loop"
    /\ \E event \in NextEvents(events) :
        /\ events' = Append(events, event)
        /\ LET r == process(event_sm, event)
           IN  IF r.outcome = "Ok"
               THEN /\ event_sm' = r.sm
                    /\ pc' = "loop"
               ELSE /\ pc' = "panicked"
                    /\ UNCHANGED event_sm
    /\ UNCHANGED <<staff_member, start_time>>
    /\ UNCHANGED <<allocVars, statusVars, logVars, reportVars, appVars, monthVars, loopVars, heapVars>>

\* the slice is exhausted: Ok(event_sm.finish())
Finish ==
    /\ pc = "loop"
    /\ pc' = "finished"
    /\ UNCHANGED <<staff_member, start_time, events, event_sm>>
    /\ UNCHANGED <<allocVars, statusVars, logVars, reportVars, appVars, monthVars, loopVars, heapVars>>

NextEval == Process \/ Finish

SpecEval == InitEval /\ [][NextEval]_vars

\* ------------------------------------------------------------------------
\* Claims about the allocator
\* ------------------------------------------------------------------------

\* C1 (as stated): for start < end the three buckets of
\* from_start_end_time(start, end) sum to end - start seconds.
C1_ConservationHalfOpen ==
    a_pc = "done" => Total(a_whole) = a_end - a_start

\* C1 (amended): for start < end the three buckets of
\* from_start_end_time(start, end) sum to end - start + 1 seconds: the second
\* at end is counted too.
C1_ConservationInclusive ==
    a_pc = "done" => Total(a_whole) = (a_end - a_start) + 1

C1_Witness ==
    /\ a_pc = "done"
    /\ a_end - a_start > SECS_PER_DAY
    /\ a_start % SECS_PER_DAY > a_end % SECS_PER_DAY
    /\ Total(a_whole) = (a_end - a_start) + 1

ReadsEvent == pc = "loop" /\ Len(events') = Len(events) + 1

\* the event read by that step
Incoming == events'[Len(events')]

\* process returned Ok(())
Returned == pc' = "loop"

OwnChange(e, st) ==
    e.kind = "StatusChange" /\ e.uuid = staff_member.uuid /\ e.status = st

Duration == event_sm.hours_raw.duration

MemberName == staff_member.name

\* the member's own StatusChange events and the day-boundary events of a slice
OwnAndBoundary(slice) ==
    SelectSeq(slice, LAMBDA e : e.kind = "6am"
                                \/ (e.kind = "StatusChange" /\ e.uuid = staff_member.uuid))

Shape(slice) ==
    LET f == OwnAndBoundary(slice)
    IN  [i \in 1..Len(f) |-> IF f[i].kind = "6am" THEN "6am" ELSE f[i].status]

StartedAway == staff_member.status = "Away"

BucketsAre(a, b) ==
    /\ to_start_seconds(DurationSMLabels[1]) = a * SECS_PER_HOUR
    /\ to_start_seconds(DurationSMLabels[2]) = b * SECS_PER_HOUR
    /\ to_start_seconds(DurationSMLabels[3]) = 0
    /\ to_duration_seconds(DurationSMLabels[1]) = (b - a) * SECS_PER_HOUR
    /\ to_duration_seconds(DurationSMLabels[2]) = (24 - b) * SECS_PER_HOUR
    /\ to_duration_seconds(DurationSMLabels[3]) = a * SECS_PER_HOUR

Scenario1Finished ==
    pc = "finished" /\ StartedAway /\ events = NormalWorktime

\* C4 (as stated): with buckets [06-22), [22-24), [24-06), the member of
\* example scenario 1 is reported with bucket minutes [180, 90, 180] and no
\* anomalies.
C4_Scenario1Buckets6To22 ==
    Scenario1Finished =>
        /\ BucketsAre(6, 22)
        /\ num_minutes(Duration) = <<180, 90, 180>>
        /\ event_sm.soft_errors = <<>>

\* C4 (amended): with the buckets of the program, [04-20), [20-24), [24-04),
\* the member of example scenario 1 is reported with bucket minutes
\* [180, 90, 180] and no anomalies.
C4_Scenario1Buckets4To20 ==
    Scenario1Finished =>
        /\ BucketsAre(4, 20)
        /\ num_minutes(Duration) = <<180, 90, 180>>
        /\ event_sm.soft_errors = <<>>

C4_Witness ==
    /\ Scenario1Finished
    /\ Duration = <<3 * SECS_PER_HOUR + 1, SECS_PER_HOUR + 30 * 60 + 1, 3 * SECS_PER_HOUR + 1>>

\* the slice holds only strictly alternating Working/Away events of the
\* member, beginning with Working, and no day-boundary event
Alternating(slice) ==
    LET f == OwnAndBoundary(slice)
    IN  \A i \in 1..Len(f) :
            /\ f[i].kind = "StatusChange"
            /\ f[i].status = (IF i % 2 = 1 THEN "Working" ELSE "Away")

\* bucket-wise sum of the allocations of the Working->Away pairs
RECURSIVE PairSum(_)
PairSum(f) ==
    IF Len(f) < 2
    THEN WorkDuration_zero
    ELSE checked_add(from_start_end_time(f[1].created_at, f[2].created_at),
                     PairSum(SubSeq(f, 3, Len(f))))

\* C5: in Working(t), a StatusChange to Away of the own member stamped e
\* (t < e) adds from_start_end_time(t, e) to the total, moves to Away and
\* records no anomaly; a member starting Away with strictly alternating
\* Working/Away events and no boundary event ends with the sum of the
\* allocations of the Working->Away pairs.
C5_WorkingToAway ==
    /\ [][(/\ ReadsEvent
           /\ event_sm.label.tag = "Working"
           /\ OwnChange(Incoming, "Away")
           /\ event_sm.label.start_time < Incoming.created_at)
          => (/\ Returned
              /\ event_sm'.hours_raw.duration =
                    checked_add(Duration,
                        from_start_end_time(event_sm.label.start_time, Incoming.created_at))
              /\ event_sm'.label = LabelAway
              /\ event_sm'.soft_errors = event_sm.soft_errors)]_vars
    /\ []((pc = "finished" /\ StartedAway /\ Alternating(events))
          => (/\ Duration = PairSum(OwnAndBoundary(events))
              /\ event_sm.soft_errors = <<>>))

C5_Witness ==
    /\ pc = "finished"
    /\ StartedAway
    /\ Alternating(events)
    /\ Len(OwnAndBoundary(events)) = 4
    /\ Total(Duration) > 5 * SECS_PER_HOUR
    /\ event_sm.label = LabelAway

\* C6: in Working(t), a StatusChange to Working of the own member stamped e
\* records exactly one AlreadyWorking(e, name) and keeps Working(t) and the
\* total; a later Away is credited from the first Working event, once.
C6_AlreadyWorking ==
    /\ [][(/\ ReadsEvent
           /\ event_sm.label.tag = "Working"
           /\ OwnChange(Incoming, "Working"))
          => (/\ Returned
              /\ event_sm'.soft_errors =
                    Append(event_sm.soft_errors,
                           SoftError("AlreadyWorking", Incoming.created_at, MemberName))
              /\ event_sm'.label = event_sm.label
              /\ event_sm'.hours_raw = event_sm.hours_raw)]_vars
    /\ []((pc = "finished" /\ StartedAway
           /\ Shape(events) = <<"Working", "Working", "Away">>)
          => LET f == OwnAndBoundary(events)
             IN  /\ Duration = from_start_end_time(f[1].created_at, f[3].created_at)
                 /\ event_sm.soft_errors =
                        <<SoftError("AlreadyWorking", f[2].created_at, MemberName)>>)

C6_Witness ==
    /\ pc = "finished"
    /\ StartedAway
    /\ Shape(events) = <<"Working", "Working", "Away">>
    /\ LET f == OwnAndBoundary(events)
       IN  /\ f[1].created_at < f[2].created_at
           /\ f[2].created_at < f[3].created_at
    /\ Len(event_sm.soft_errors) = 1

\* C7: in Away, a StatusChange to Away of the own member stamped e records
\* AlreadyAway(e, name), stays Away and leaves the total unchanged; the time
\* worked before the first Away stays credited once.
C7_AlreadyAway ==
    /\ [][(/\ ReadsEvent
           /\ event_sm.label.tag = "Away"
           /\ OwnChange(Incoming, "Away"))
          => (/\ Returned
              /\ event_sm'.soft_errors =
                    Append(event_sm.soft_errors,
                           SoftError("AlreadyAway", Incoming.created_at, MemberName))
              /\ event_sm'.label = LabelAway
              /\ event_sm'.hours_raw = event_sm.hours_raw)]_vars
    /\ []((pc = "finished" /\ StartedAway
           /\ Shape(events) = <<"Working", "Away", "Away">>)
          => LET f == OwnAndBoundary(events)
             IN  /\ Duration = from_start_end_time(f[1].created_at, f[2].created_at)
                 /\ event_sm.soft_errors =
                        <<SoftError("AlreadyAway", f[3].created_at, MemberName)>>)

C7_Witness ==
    /\ pc = "finished"
    /\ StartedAway
    /\ Shape(events) = <<"Working", "Away", "Away">>
    /\ Total(Duration) > 0
    /\ Len(event_sm.soft_errors) = 1
    /\ event_sm.soft_errors[1].tag = "AlreadyAway"

\* C8: in Working(t), a day-boundary event (_6am) stamped b (t < b) records
\* StaffStillWorking(b, name), credits from_start_end_time(t, b) and moves
\* to Away; a member marked Working with no further own event before the
\* boundary gets exactly one such anomaly.
C8_StillWorkingAtBoundary ==
    /\ [][(/\ ReadsEvent
           /\ event_sm.label.tag = "Working"
           /\ Incoming.kind = "6am"
           /\ event_sm.label.start_time < Incoming.created_at)
          => (/\ Returned
              /\ event_sm'.soft_errors =
                    Append(event_sm.soft_errors,
                           SoftError("StaffStillWorking", Incoming.created_at, MemberName))
              /\ event_sm'.hours_raw.duration =
                    checked_add(Duration,
                        from_start_end_time(event_sm.label.start_time, Incoming.created_at))
              /\ event_sm'.label = LabelAway)]_vars
    /\ []((pc = "finished" /\ StartedAway
           /\ Shape(events) \in { <<"Working", "6am">>, <<"Working", "6am", "6am">> })
          => LET f == OwnAndBoundary(events)
             IN  /\ Duration = from_start_end_time(f[1].created_at, f[2].created_at)
                 /\ event_sm.soft_errors =
                        <<SoftError("StaffStillWorking", f[2].created_at, MemberName)>>)

C8_Witness ==
    /\ pc = "finished"
    /\ StartedAway
    /\ Shape(events) = <<"Working", "6am", "6am">>
    /\ Len(event_sm.soft_errors) = 1
    /\ event_sm.soft_errors[1].tag = "StaffStillWorking"
    /\ Total(Duration) > 0
    /\ event_sm.label = LabelAway

Foreign(e) ==
    \/ (e.kind = "StatusChange" /\ e.uuid # staff_member.uuid)
    \/ e.kind \in {"Info", "Error"}

\* C10: in any state, a StatusChange naming another member, an Info or an
\* Error event leaves label, duration and anomalies unchanged; the result of
\* a member is the result of the slice without those events.
C10_ForeignEventsIgnored ==
    /\ [][(ReadsEvent /\ Foreign(Incoming))
          => (Returned /\ event_sm' = event_sm)]_vars
    /\ [](pc = "finished"
          => Ok(event_sm) =
                process_all(
                    EventSM_new(staff_member, initial_start_time(staff_member, start_time)),
                    SelectSeq(events, LAMBDA e : ~Foreign(e))))

C10_Witness ==
    /\ pc = "finished"
    /\ Len(events) = 3
    /\ OwnChange(events[1], "Working")
    /\ events[2].kind = "StatusChange"
    /\ events[2].uuid = OtherUuid
    /\ events[2].status = "Away"
    /\ OwnChange(events[3], "Away")
    /\ Total(Duration) > 0
    /\ event_sm.soft_errors = <<>>

\* C11: when the loop over the events of the period ends with the member
\* still in Working(t), the returned result holds a StaffStillWorking
\* anomaly and its total is the total so far plus from_start_end_time(t,
\* period end).
C11_TerminalWorkingReported ==
    [][(/\ pc = "loop"
        /\ pc' = "finished"
        /\ event_sm.label.tag = "Working")
       => (/\ \E i \in 1..Len(finish(event_sm').soft_errors) :
                finish(event_sm').soft_errors[i].tag = "StaffStillWorking"
           /\ finish(event_sm').hours_raw.duration =
                checked_add(Duration,
                    from_start_end_time(event_sm.label.start_time, PeriodEnd)))]_vars

\* the member's own StatusChange to Working
IsWorkingChange(e) == e.kind = "StatusChange" /\ e.status = "Working"

\* the own and boundary events of a slice, behind a Working event at the
\* period start for a member who is marked Working there
Seeded(slice) ==
    (IF staff_member.status = "Working"
     THEN <<StatusChange(start_time, staff_member.uuid, "Working")>>
     ELSE <<>>) \o OwnAndBoundary(slice)

\* every run of Working events is credited once, from its first Working
\* event to the first Away or day-boundary event that follows it
RECURSIVE RunCredit(_, _)
RunCredit(f, i) ==
    IF i > Len(f)
    THEN WorkDuration_zero
    ELSE LET opens == IsWorkingChange(f[i]) /\ (i = 1 \/ ~IsWorkingChange(f[i - 1]))
             closers == { j \in (i + 1)..Len(f) : ~IsWorkingChange(f[j]) }
             close == CHOOSE j \in closers : \A k \in closers : j <= k
         IN  IF opens /\ closers # {}
             THEN checked_add(from_start_end_time(f[i].created_at, f[close].created_at),
                              RunCredit(f, i + 1))
             ELSE RunCredit(f, i + 1)

\* the status the member has before event i of the slice, by the last own
\* or boundary event before it
StatusBefore(slice, i) ==
    LET before == { j \in 1..(i - 1) :
                      slice[j].kind = "6am" \/ OwnChange(slice[j], slice[j].status) }
        last == CHOOSE j \in before : \A k \in before : k <= j
    IN  IF before = {} THEN staff_member.status
        ELSE IF OwnChange(slice[last], "Working") THEN "Working"
        ELSE "Away"

\* event i repeats the status the member already has
RepeatsStatus(slice, i) ==
    /\ OwnChange(slice[i], slice[i].status)
    /\ slice[i].status = StatusBefore(slice, i)

RECURSIVE WithoutRepeats(_, _)
WithoutRepeats(slice, i) ==
    IF i > Len(slice)
    THEN <<>>
    ELSE (IF RepeatsStatus(slice, i) THEN <<>> ELSE <<slice[i]>>)
            \o WithoutRepeats(slice, i + 1)

\* C12: an event that raises AlreadyWorking, AlreadyAway or StaffStillWorking
\* has process return Ok with one more anomaly, so the loop goes on with the
\* next event; a finished evaluation has credited every run of Working
\* events once, from its first Working event to the first Away or boundary
\* event after it, and has the duration and final state of the slice
\* without the events that raised AlreadyWorking or AlreadyAway.
C12_AnomaliesNotFatal ==
    /\ [][(/\ ReadsEvent
           /\ \/ event_sm.label.tag = "Working" /\ OwnChange(Incoming, "Working")
              \/ event_sm.label.tag = "Away" /\ OwnChange(Incoming, "Away")
              \/ /\ event_sm.label.tag = "Working"
                 /\ Incoming.kind = "6am"
                 /\ event_sm.label.start_time < Incoming.created_at)
          => (/\ Returned
              /\ Len(event_sm'.soft_errors) = Len(event_sm.soft_errors) + 1)]_vars
    /\ [](pc = "finished"
          => (/\ Duration = RunCredit(Seeded(events), 1)
              /\ LET r == process_all(
                            EventSM_new(staff_member,
                                        initial_start_time(staff_member, start_time)),
                            WithoutRepeats(events, 1))
                 IN  /\ r.outcome = "Ok"
                     /\ r.sm.hours_raw = event_sm.hours_raw
                     /\ r.sm.label = event_sm.label
                     /\ r.sm.soft_errors =
                            SelectSeq(event_sm.soft_errors,
                                      LAMBDA x : x.tag = "StaffStillWorking")))

C12_Witness ==
    /\ pc = "finished"
    /\ staff_member.status = "Working"
    /\ Len(events) = 3
    /\ Len(event_sm.soft_errors) = 3
    /\ [i \in 1..3 |-> event_sm.soft_errors[i].tag]
            = <<"AlreadyWorking", "StaffStillWorking", "AlreadyAway">>
    /\ Total(Duration) > 0

\* ------------------------------------------------------------------------
\* load_state run on logs of events
\* ------------------------------------------------------------------------

\* the two members of setup_testdb
TestStaff ==
    << DBStaffMember(OwnUuid, "Aaron", TRUE), DBStaffMember(OtherUuid, "Beeron", TRUE) >>

\* the days on which the events and the loads of the runs lie
StatusDays == {0, 1}

\* the timestamp, in ticks, of a time of day given in seconds on day d
At(d, tod) == (d * SECS_PER_DAY + tod) * TicksPerSecond

\* the day-boundary events are stamped 05:59:59 (bin/add_6am_events.rs)
_55959am == 6 * SECS_PER_HOUR - 1

\* times of day of the logged status changes
ChangeTods == {5 * SECS_PER_HOUR, 6 * SECS_PER_HOUR + 600, 18 * SECS_PER_HOUR}

\* times of day at which the state is loaded
LoadTods == {5 * SECS_PER_HOUR + 1800, 6 * SECS_PER_HOUR,
             6 * SECS_PER_HOUR + 1800, 19 * SECS_PER_HOUR}

LoggedEvents ==
    { StatusChange(At(d, tod), OwnUuid, st) :
        d \in StatusDays, tod \in ChangeTods, st \in Statuses }
    \cup { StatusChange(At(d, tod), OtherUuid, "Working") :
        d \in StatusDays, tod \in ChangeTods }
    \cup { PlainEvent(At(d, tod), "EventOver") :
        d \in StatusDays, tod \in ChangeTods }
    \cup { PlainEvent(At(d, _55959am), "6am") : d \in StatusDays }

\* the state is loaded at one of the times of day of LoadTods, or within
\* the second of the day-boundary stamp
LoadTimes ==
    { At(d, tod) : d \in StatusDays, tod \in LoadTods }
    \cup { At(d, _55959am) + 1 : d \in StatusDays }

\* the events that may follow in a log ordered by created_at
NextLogged(read) ==
    IF Len(read) < MaxLog
    THEN { e \in LoggedEvents :
             read = <<>> \/ read[Len(read)].created_at <= e.created_at }
    ELSE {}

InitStatus ==
    /\ AllocIdle
    /\ EvalIdle
    /\ LogIdle
    /\ ReportIdle
    /\ AppIdle
    /\ MonthIdle
    /\ LoopIdle
    /\ HeapIdle
    /\ s_pc = "log"
    /\ s_log = <<>>
    /\ s_now = 0
    /\ s_staff = <<>>

\* one more event is in the log that load_events returns
LogEvent ==
    /\ s_pc = "log"
    /\ \E e \in NextLogged(s_log) : s_log' = Append(s_log, e)
    /\ UNCHANGED <<s_pc, s_now, s_staff>>
    /\ UNCHANGED <<allocVars, evalVars, logVars, reportVars, appVars, monthVars, loopVars, heapVars>>

\* load_state at current_time; the status changes of the log were written
\* at their time, only day-boundary events are stamped ahead
LoadState ==
    /\ s_pc = "log"
    /\ \E current_time \in LoadTimes :
        /\ \A i \in 1..Len(s_log) :
              s_log[i].kind # "6am" => s_log[i].created_at <= current_time
        /\ s_now' = current_time
        /\ s_staff' = staff_compute_status(TestStaff, s_log, current_time)
    /\ s_pc' = "loaded"
    /\ UNCHANGED s_log
    /\ UNCHANGED <<allocVars, evalVars, logVars, reportVars, appVars, monthVars, loopVars, heapVars>>

NextStatus == LogEvent \/ LoadState

SpecStatus == InitStatus /\ [][NextStatus]_vars

\* ------------------------------------------------------------------------
\* Claims about the status computed from the log
\* ------------------------------------------------------------------------

IsChangeOf(e, uuid) == e.kind = "StatusChange" /\ e.uuid = uuid

Newest(indices) == CHOOSE j \in indices : \A k \in indices : k <= j

\* the status by the newest StatusChange of the member or day-boundary event
StatedStatus(uuid, log) ==
    LET deciding == { i \in 1..Len(log) : IsChangeOf(log[i], uuid) \/ log[i].kind = "6am" }
    IN  IF deciding = {} THEN "Away"
        ELSE IF log[Newest(deciding)].kind = "6am" THEN "Away"
        ELSE log[Newest(deciding)].status

\* hour 6 of the day of now, or of the day before when now is before 6
\* o'clock, at the minute and second of now
BoundaryOf(now) ==
    LET day == now \div TICKS_PER_DAY
        tod == now % TICKS_PER_DAY
    IN  (IF tod >= 6 * TICKS_PER_HOUR THEN day ELSE day - 1) * TICKS_PER_DAY
            + 6 * TICKS_PER_HOUR + (tod % TICKS_PER_HOUR)

\* the status by the newest event that is stamped before the boundary, is a
\* StatusChange of the member or is an EventOver
BoundedStatus(uuid, log, now) ==
    LET deciding == { i \in 1..Len(log) :
                        \/ log[i].created_at < BoundaryOf(now)
                        \/ IsChangeOf(log[i], uuid)
                        \/ log[i].kind = "EventOver" }
        e == log[Newest(deciding)]
    IN  IF deciding = {} THEN "Away"
        ELSE IF e.created_at >= BoundaryOf(now) /\ IsChangeOf(e, uuid) THEN e.status
        ELSE "Away"

\* the log and the time of tests::load_working and tests::load_6am
LoadTestLog ==
    << StatusChange(At(0, 5 * SECS_PER_HOUR), OwnUuid, "Working"),
       PlainEvent(At(0, _55959am), "6am"),
       PlainEvent(At(1, _55959am), "6am") >>

WorkingThenBoundary(uuid, log, now) ==
    \E i \in 1..Len(log) :
        /\ IsChangeOf(log[i], uuid)
        /\ log[i].status = "Working"
        /\ \A k \in (i + 1)..Len(log) : ~IsChangeOf(log[k], uuid)
        /\ \E j \in (i + 1)..Len(log) :
              log[j].kind = "6am" /\ log[j].created_at < now

\* C14: for a log in which the newest StatusChange of a member is to
\* Working and a day-boundary event comes after it, the status computed at
\* any time after the stamp of that boundary event is Away.
C14_AwayAfterBoundaryEvent ==
    s_pc = "loaded" =>
        \A m \in 1..Len(s_staff) :
            WorkingThenBoundary(TestStaff[m].uuid, s_log, s_now)
                => s_staff[m].status = "Away"

\* the events with their timestamps in whole seconds
InSeconds(log) ==
    [i \in 1..Len(log) |-> [log[i] EXCEPT !.created_at = @ \div TicksPerSecond]]

HasChangeOf(uuid, log) == \E i \in 1..Len(log) : IsChangeOf(log[i], uuid)

\* C15: a member with no StatusChange of their own in the scanned events
\* (the empty log included) is returned as Away, and the evaluation of that
\* member over events without a StatusChange of their own returns zero
\* minutes in every bucket and no anomalies.
C15_DefaultAway ==
    s_pc = "loaded" =>
        \A m \in 1..Len(s_staff) :
            ~HasChangeOf(TestStaff[m].uuid, s_log)
                => /\ s_staff[m].status = "Away"
                   /\ LET r == evaluate_hours_for_staff_member(
                                    s_staff[m], InSeconds(s_log), PeriodStart)
                      IN  /\ r.outcome = "Ok"
                          /\ num_minutes(r.value.hours_raw.duration) = <<0, 0, 0>>
                          /\ r.value.soft_errors = <<>>

C15_Witness ==
    /\ s_pc = "loaded"
    /\ Len(s_log) = 3
    /\ ~HasChangeOf(OwnUuid, s_log)
    /\ HasChangeOf(OtherUuid, s_log)
    /\ \E i \in 1..Len(s_log) : s_log[i].kind = "6am"
    /\ s_staff[1].status = "Away"
    /\ s_staff[2].status = "Working"

\* ------------------------------------------------------------------------
\* The events table filled by insert_event and read by the loaders
\* ------------------------------------------------------------------------

StampTimes == { PeriodStart + k : k \in 0..MaxStamp }

\* what is inserted: status changes of a member and day-boundary events
NewEvents ==
    { StatusChange(t, OwnUuid, "Working") : t \in StampTimes }
    \cup { PlainEvent(t, "6am") : t \in StampTimes }

InitLog ==
    /\ AllocIdle
    /\ EvalIdle
    /\ StatusIdle
    /\ ReportIdle
    /\ AppIdle
    /\ MonthIdle
    /\ LoopIdle
    /\ HeapIdle
    /\ d_pc = "open"
    /\ d_table = <<>>
    /\ d_start = 0
    /\ d_end = 0
    /\ d_all = <<>>
    /\ d_previous = <<>>
    /\ d_between = <<>>

\* insert_event with any timestamp: events are inserted in any order of
\* their timestamps (the day-boundary events are inserted ahead of time)
InsertEvent ==
    /\ d_pc = "open"
    /\ Len(d_table) < MaxRows
    /\ \E new_event \in NewEvents : d_table' = insert_event(d_table, new_event)
    /\ UNCHANGED <<d_pc, d_start, d_end, d_all, d_previous, d_between>>
    /\ UNCHANGED <<allocVars, evalVars, statusVars, reportVars, appVars, monthVars, loopVars, heapVars>>

\* load_state: let events = load_events(connection)
LoadAll ==
    /\ d_pc = "open"
    /\ d_all' \in load_events(d_table)
    /\ d_pc' = "loaded"
    /\ UNCHANGED <<d_table, d_start, d_end, d_previous, d_between>>
    /\ UNCHANGED <<allocVars, evalVars, statusVars, reportVars, appVars, monthVars, loopVars, heapVars>>

\* evaluate_hours_for_time(start_time, end_time): the two loads
LoadSlices ==
    /\ d_pc = "open"
    /\ \E period_start \in StampTimes, period_end \in StampTimes :
        /\ period_start < period_end
        /\ d_start' = period_start
        /\ d_end' = period_end
        /\ d_previous' \in load_events_before(d_table, period_start)
        /\ d_between' \in load_events_between(d_table, period_start, period_end)
    /\ d_pc' = "loaded"
    /\ UNCHANGED <<d_table, d_all>>
    /\ UNCHANGED <<allocVars, evalVars, statusVars, reportVars, appVars, monthVars, loopVars, heapVars>>

NextLog == InsertEvent \/ LoadAll \/ LoadSlices

SpecLog == InitLog /\ [][NextLog]_vars

\* ------------------------------------------------------------------------
\* Claims about the loaders
\* ------------------------------------------------------------------------

Rows(q) == { q[i] : i \in 1..Len(q) }

SlicesLoaded == d_pc = "loaded" /\ d_start < d_end

\* C17: load_events_between(start, end) returns exactly the rows with
\* start <= created_at < end, each once; in the two loads of an evaluation a
\* row stamped period_start is in the slice of the period and not in the
\* slice of the events before it, a row stamped period_end is in neither,
\* and no row is in both.
C17_HalfOpenLoading ==
    SlicesLoaded =>
        /\ Rows(d_between) = { r \in Rows(d_table) :
                                 d_start <= r.created_at /\ r.created_at < d_end }
        /\ Len(d_between) = Cardinality(Rows(d_between))
        /\ \A r \in Rows(d_table) :
              /\ r.created_at = d_start => (r \in Rows(d_between) /\ r \notin Rows(d_previous))
              /\ r.created_at = d_end => (r \notin Rows(d_between) /\ r \notin Rows(d_previous))
        /\ Rows(d_between) \cap Rows(d_previous) = {}

C17_Witness ==
    /\ SlicesLoaded
    /\ Len(d_table) = 3
    /\ \E r \in Rows(d_table) : r.created_at = d_start
    /\ \E r \in Rows(d_table) : r.created_at = d_end
    /\ Len(d_previous) = 1
    /\ Len(d_between) = 1

AscendingByStampAndId(q) ==
    \A i, j \in 1..Len(q) :
        i < j => \/ q[i].created_at < q[j].created_at
                 \/ (q[i].created_at = q[j].created_at /\ q[i].id < q[j].id)

\* C18: every sequence returned by load_events and load_events_between is
\* ascending in (created_at, id), whatever the order of the inserts.
C18_AscendingByStampAndId ==
    d_pc = "loaded" =>
        /\ AscendingByStampAndId(d_all)
        /\ AscendingByStampAndId(d_previous)
        /\ AscendingByStampAndId(d_between)

\* ------------------------------------------------------------------------
\* evaluate_hours_for_time run on a staff list and two slices of events
\* ------------------------------------------------------------------------

\* the period of tests::worktime_start begins at 19:00
ReportStart == 19 * SECS_PER_HOUR

\* the events before the period are stamped 18:00
PreviousTimes == {18 * SECS_PER_HOUR}

\* the events of the period are stamped at its start or 01:00 of the next day
ReportTimes == {ReportStart, SECS_PER_DAY + SECS_PER_HOUR}

ReportEventsAt(t) ==
    { StatusChange(t, u, st) : u \in {OwnUuid, OtherUuid}, st \in Statuses }
    \cup { PlainEvent(t, "6am") }

StaffMember(uuid, name, is_visible, status) ==
    [uuid |-> uuid, name |-> name, is_visible |-> is_visible, status |-> status]

\* shared.staff: the two members in one order with any visibility, and in
\* the other order
StaffLists ==
    { << StaffMember(OwnUuid, "Aaron", v1, "Away"),
         StaffMember(OtherUuid, "Beeron", v2, "Away") >> : v1 \in BOOLEAN, v2 \in BOOLEAN }
    \cup { << StaffMember(OtherUuid, "Beeron", TRUE, "Away"),
              StaffMember(OwnUuid, "Aaron", TRUE, "Away") >> }

\* the events that may follow in a slice ordered by created_at
NextInSlice(read, times, max) ==
    IF Len(read) < max
    THEN UNION { ReportEventsAt(t) :
                   t \in { x \in times : read = <<>> \/ read[Len(read)].created_at <= x } }
    ELSE {}

InitReport ==
    /\ AllocIdle
    /\ EvalIdle
    /\ StatusIdle
    /\ LogIdle
    /\ AppIdle
    /\ MonthIdle
    /\ LoopIdle
    /\ HeapIdle
    /\ r_pc = "input"
    /\ r_staff \in StaffLists
    /\ r_previous = <<>>
    /\ r_events = <<>>
    /\ r_result = [outcome |-> "None"]
    /\ r_again = [outcome |-> "None"]

\* one more event in what load_events_between(None, Some(start_time)) returns
LoadPrevious ==
    /\ r_pc = "input"
    /\ \E e \in NextInSlice(r_previous, PreviousTimes, MaxPrevious) :
          r_previous' = Append(r_previous, e)
    /\ UNCHANGED <<r_pc, r_staff, r_events, r_result, r_again>>
    /\ UNCHANGED <<allocVars, evalVars, statusVars, logVars, appVars, monthVars, loopVars, heapVars>>

\* one more event in what load_events_between(Some(start_time),
\* Some(end_time)) returns
LoadPeriod ==
    /\ r_pc = "input"
    /\ \E e \in NextInSlice(r_events, ReportTimes, MaxReportEvents) :
          r_events' = Append(r_events, e)
    /\ UNCHANGED <<r_pc, r_staff, r_previous, r_result, r_again>>
    /\ UNCHANGED <<allocVars, evalVars, statusVars, logVars, appVars, monthVars, loopVars, heapVars>>

Evaluate ==
    /\ r_pc = "input"
    /\ r_result' = evaluate_hours_for_time(r_staff, r_previous, r_events, ReportStart)
    /\ r_pc' = "done"
    /\ UNCHANGED <<r_staff, r_previous, r_events, r_again>>
    /\ UNCHANGED <<allocVars, evalVars, statusVars, logVars, appVars, monthVars, loopVars, heapVars>>

\* the slice with one more event at place i
InsertAt(slice, i, e) ==
    SubSeq(slice, 1, i) \o <<e>> \o SubSeq(slice, i + 1, Len(slice))

\* what a load returns once the event e is in the log as well
WithLogged(slice, e) ==
    { InsertAt(slice, i, e) : i \in { k \in 0..Len(slice) :
        /\ k > 0 => slice[k].created_at <= e.created_at
        /\ k < Len(slice) => e.created_at <= slice[k + 1].created_at } }

\* evaluate_hours_for_month called again for the same month: log_info
\* inserts an Info event stamped now, then the two loads return the
\* events as before with that event among them, or without it when now is
\* past the end of the period
EvaluateMonthAgain ==
    /\ r_pc = "done"
    /\ \/ \E now \in PreviousTimes :
             /\ r_previous' \in WithLogged(r_previous, PlainEvent(now, "Info"))
             /\ UNCHANGED r_events
       \/ \E now \in ReportTimes :
             /\ r_events' \in WithLogged(r_events, PlainEvent(now, "Info"))
             /\ UNCHANGED r_previous
       \/ UNCHANGED <<r_previous, r_events>>
    /\ r_again' = evaluate_hours_for_time(r_staff, r_previous', r_events', ReportStart)
    /\ r_pc' = "again"
    /\ UNCHANGED <<r_staff, r_result>>
    /\ UNCHANGED <<allocVars, evalVars, statusVars, logVars, appVars, monthVars, loopVars, heapVars>>

\* the staff with other values in the status fields
Restatused(staff) ==
    { [i \in 1..Len(staff) |-> [staff[i] EXCEPT !.status = statuses[i]]] :
        statuses \in [1..Len(staff) -> {"Away", "Working"}] }

\* evaluate_hours_for_time on the same events when the members of
\* shared.staff have toggled their status in between
EvaluateOtherStatus ==
    /\ r_pc = "done"
    /\ r_staff' \in Restatused(r_staff) \ {r_staff}
    /\ r_again' = evaluate_hours_for_time(r_staff', r_previous, r_events, ReportStart)
    /\ r_pc' = "restatused"
    /\ UNCHANGED <<r_previous, r_events, r_result>>
    /\ UNCHANGED <<allocVars, evalVars, statusVars, logVars, appVars, monthVars, loopVars, heapVars>>

NextReport ==
    LoadPrevious \/ LoadPeriod \/ Evaluate \/ EvaluateMonthAgain \/ EvaluateOtherStatus

SpecReport == InitReport /\ [][NextReport]_vars

\* ------------------------------------------------------------------------
\* Claims about the report
\* ------------------------------------------------------------------------

Visible == SelectSeq(r_staff, LAMBDA m : m.is_visible)

ReportOk == r_pc = "done" /\ r_result.outcome = "Ok"

\* the StatusChange events of a member and the day-boundary events of a slice
ChangesAndBoundaries(uuid, slice) ==
    SelectSeq(slice, LAMBDA e : e.kind = "6am" \/ IsChangeOf(e, uuid))

AnomaliesOf(name) == SelectSeq(r_result.soft_errors, LAMBDA x : x.name = name)

\* the only own or boundary event of the member in the period is a
\* StatusChange to Away
OnlyAway(uuid) ==
    LET f == ChangesAndBoundaries(uuid, r_events)
    IN  Len(f) = 1 /\ f[1].kind = "StatusChange" /\ f[1].status = "Away"

\* C16: a visible member whose newest own or boundary event before the
\* period is a StatusChange to Working starts in Working(period start): an
\* own Away at a > period start, their only event of the period, gives the
\* row from_start_end_time(period start, a) and no anomaly; a member who is
\* Away by the events before the period starts in Away: the same Away event
\* gives a row of zeros and one AlreadyAway anomaly.
C16_SeededFromPreviousEvents ==
    ReportOk =>
        \A i \in 1..Len(Visible) :
            OnlyAway(Visible[i].uuid) =>
                LET a == ChangesAndBoundaries(Visible[i].uuid, r_events)[1].created_at
                IN  IF StatedStatus(Visible[i].uuid, r_previous) = "Working"
                    THEN /\ a > ReportStart
                         /\ r_result.hours_csv[i].minutes =
                                num_minutes(from_start_end_time(ReportStart, a))
                         /\ AnomaliesOf(Visible[i].name) = <<>>
                    ELSE /\ r_result.hours_csv[i].minutes = <<0, 0, 0>>
                         /\ AnomaliesOf(Visible[i].name) =
                                <<SoftError("AlreadyAway", a, Visible[i].name)>>

\* tests::worktime_start: Working at 18:00 before the period, Away at 01:00
C16_Witness ==
    /\ ReportOk
    /\ r_staff[1].uuid = OwnUuid
    /\ r_staff[1].is_visible
    /\ r_previous = <<StatusChange(18 * SECS_PER_HOUR, OwnUuid, "Working")>>
    /\ r_events = <<StatusChange(SECS_PER_DAY + SECS_PER_HOUR, OwnUuid, "Away")>>
    /\ r_result.hours_csv[1].minutes = <<60, 240, 60>>
    /\ r_result.soft_errors = <<>>

\* the position of a member in the visible staff
PlaceOf(name) == CHOOSE i \in 1..Len(Visible) : Visible[i].name = name

\* C19: a report has one row per visible member, in the order of the staff
\* list, each with the minutes of that member's own evaluation, and no row
\* for a member who is not visible; its anomalies are those of the visible
\* members, member after member in the order of the staff list, and for
\* each member those of their own evaluation in the order of the events.
C19_ReportShape ==
    ReportOk =>
        /\ Len(r_result.hours_csv) = Len(Visible)
        /\ \A i \in 1..Len(Visible) :
              LET st == StatedStatus(Visible[i].uuid, r_previous)
                  own == evaluate_hours_for_staff_member(
                            [uuid |-> Visible[i].uuid, name |-> Visible[i].name,
                             is_visible |-> TRUE, status |-> st],
                            r_events, ReportStart)
              IN  /\ r_result.hours_csv[i].name = Visible[i].name
                  /\ r_result.hours_csv[i].minutes = num_minutes(own.value.hours_raw.duration)
                  /\ AnomaliesOf(Visible[i].name) = own.value.soft_errors
        /\ \A k \in 1..Len(r_result.soft_errors) :
              \E i \in 1..Len(Visible) : Visible[i].name = r_result.soft_errors[k].name
        /\ \A k, l \in 1..Len(r_result.soft_errors) :
              k < l =>
                LET x == r_result.soft_errors[k]
                    y == r_result.soft_errors[l]
                IN  \/ PlaceOf(x.name) < PlaceOf(y.name)
                    \/ (x.name = y.name /\ x.at <= y.at)

C19_Witness ==
    /\ ReportOk
    /\ Len(Visible) = 2
    /\ Visible[1].name = "Beeron"
    /\ Len(r_result.soft_errors) = 3
    /\ r_events[1].uuid = OwnUuid
    /\ r_events[1].created_at < r_events[2].created_at
    /\ [k \in 1..3 |-> r_result.soft_errors[k].name] = <<"Beeron", "Beeron", "Aaron">>
    /\ r_result.hours_csv[1].name = "Beeron"
    /\ r_result.hours_csv[2].name = "Aaron"

\* the evaluation of a visible member calls from_start_end_time with a
\* start that is not before the end
OutOfDomain ==
    \E i \in 1..Len(Visible) :
        evaluate_hours_for_staff_member(
            compute_status(Visible[i], r_previous), r_events, ReportStart).outcome # "Ok"

\* C20: when the evaluation of a member would call the allocator with
\* start >= end, evaluate_hours_for_time returns Err to its caller, with no
\* rows and no anomalies.
C20_FatalErrorReturned ==
    (r_pc = "done" /\ OutOfDomain) => r_result = [outcome |-> "Err"]

\* C21: a second evaluation of the same month, with the same staff list and
\* the same events in the same order, returns the rows and the anomalies of
\* the first one, whether or not the Info event logged by
\* evaluate_hours_for_month lies among the events loaded.
C21_SameReportAgain ==
    r_pc = "again" => r_again = r_result

C21_Witness ==
    /\ r_pc = "again"
    /\ r_result.outcome = "Ok"
    /\ Len(r_events) = 4
    /\ IsChangeOf(r_events[1], OwnUuid)
    /\ r_events[1].status = "Working"
    /\ r_events[2].kind = "Info"
    /\ r_events[3].kind = "6am"
    /\ r_events[1].created_at < r_events[3].created_at
    /\ Len(Visible) = 2
    /\ Len(r_again.soft_errors) > 0
    /\ r_again.hours_csv[1].minutes # <<0, 0, 0>>

\* ------------------------------------------------------------------------
\* models.rs : staff members with their credentials, input validation
\* ------------------------------------------------------------------------

\* a String is the sequence of its characters
Repeat(c, n) == [i \in 1..n |-> c]

DigitChars == {"0", "1", "2", "3", "4", "5", "6", "7", "8", "9"}

AlnumChars ==
    DigitChars
    \cup {"A", "B", "C", "D", "E", "F", "G", "H", "I", "J", "K", "L", "M",
          "N", "O", "P", "Q", "R", "S", "T", "U", "V", "W", "X", "Y", "Z"}
    \cup {"a", "b", "c", "d", "e", "f", "g", "h", "i", "j", "k", "l", "m",
          "n", "o", "p", "q", "r", "s", "t", "u", "v", "w", "x", "y", "z"}

PIN_LENGTH == 4

CARDID_LENGTH == 10

\* PIN::from_str: ^[A-Za-z0-9]{4}$
PIN_from_str(s) ==
    IF Len(s) = 4 /\ \A i \in 1..Len(s) : s[i] \in AlnumChars
    THEN "Ok"
    ELSE "ParsePIN"

\* Cardid::from_str: ^\d{10}$
Cardid_from_str(s) ==
    IF Len(s) = 10 /\ \A i \in 1..Len(s) : s[i] \in DigitChars
    THEN "Ok"
    ELSE "ParseCardid"

validate_NoCardidCheck(name, pin, cardid) ==
    IF name = ""
    THEN "EmptyName"
    ELSE PIN_from_str(pin)

\* NewStaffMember::validate
validate(name, pin, cardid) ==
    IF name = ""
    THEN "EmptyName"
    ELSE IF PIN_from_str(pin) # "Ok"
         THEN PIN_from_str(pin)
         ELSE Cardid_from_str(cardid)

\* WorkStatus::toggle
toggle(status) == IF status = "Away" THEN "Working" ELSE "Away"

\* StaffMember with all its fields
StaffMemberOf(uuid, name, pin, cardid, status, is_visible) ==
    [uuid |-> uuid, name |-> name, pin |-> pin, cardid |-> cardid,
     status |-> status, is_visible |-> is_visible]

\* a NULL of the staff table
Null == <<"NULL">>

\* a row of the staff table
StaffRow(uuid, name, pin, cardid, is_visible, is_active) ==
    [uuid |-> uuid, name |-> name, pin |-> pin, cardid |-> cardid,
     is_visible |-> is_visible, is_active |-> is_active]

\* DBStaffMember::from(StaffMember): the status is dropped
DBStaffMember_from(member) ==
    [uuid |-> member.uuid, name |-> member.name, pin |-> member.pin,
     cardid |-> member.cardid, is_visible |-> member.is_visible]

\* StaffMember::get_by_pin_or_card_id: the index of the first match, 0 for None
get_by_pin_or_card_id(staff, ident) ==
    LET found == { i \in 1..Len(staff) :
                     staff[i].pin = ident \/ staff[i].cardid = ident }
    IN  IF found = {}
        THEN 0
        ELSE CHOOSE i \in found : \A j \in found : i <= j

\* StaffMember::get_by_uuid_mut: the index of the first match, 0 for None
get_by_uuid_mut(staff, uuid) ==
    LET found == { i \in 1..Len(staff) : staff[i].uuid = uuid }
    IN  IF found = {}
        THEN 0
        ELSE CHOOSE i \in found : \A j \in found : i <= j

\* str::trim
RECURSIVE trim_start(_)
trim_start(s) ==
    IF s # <<>> /\ Head(s) = " " THEN trim_start(Tail(s)) ELSE s

RECURSIVE trim_end(_)
trim_end(s) ==
    IF s # <<>> /\ s[Len(s)] = " "
    THEN trim_end(SubSeq(s, 1, Len(s) - 1))
    ELSE s

trim(s) == trim_end(trim_start(s))

\* ------------------------------------------------------------------------
\* db.rs : the staff table
\* ------------------------------------------------------------------------

\* save_staff_member: update of the row with the member's uuid
save_staff_member(table, member) ==
    [i \in 1..Len(table) |->
        IF table[i].uuid = member.uuid
        THEN [table[i] EXCEPT !.name = member.name, !.pin = member.pin,
                              !.cardid = member.cardid,
                              !.is_visible = member.is_visible]
        ELSE table[i]]

\* insert_staff: the new row gets the next id, is visible and active
insert_staff(table, name, pin, cardid) ==
    Append(table, StaffRow(Len(table) + 1, name, pin, cardid, TRUE, TRUE))

\* save_staff: the members are saved one after the other
RECURSIVE save_staff(_, _)
save_staff(table, staff_v) ==
    IF staff_v = <<>>
    THEN table
    ELSE save_staff(save_staff_member(table, Head(staff_v)), Tail(staff_v))

\* delete_staff_member: the row is kept, inactive and without credentials
delete_staff_member(table, member) ==
    [i \in 1..Len(table) |->
        IF table[i].uuid = member.uuid
        THEN [table[i] EXCEPT !.is_active = FALSE, !.pin = Null, !.cardid = Null]
        ELSE table[i]]

\* ------------------------------------------------------------------------
\* main.rs : SharedData
\* ------------------------------------------------------------------------

\* SharedData::log_eventt
log_eventt(table, new_eventt) == insert_event(table, new_eventt)

\* SharedData::create_event, with the reading of the clock as now
create_event(table, kind, now) == log_eventt(table, PlainEvent(now, kind))

\* SharedData::handle_result: an Err is logged as an Error event
handle_result(table, result, now) ==
    IF result = "Ok" THEN table ELSE create_event(table, "Error", now)

\* sign_off_all_staff without the assignment of the new status
sign_off_all_staff_Nobody(staff) == staff

\* SharedData::sign_off_all_staff: the staff after it
sign_off_all_staff(staff) ==
    [i \in 1..Len(staff) |-> [staff[i] EXCEPT !.status = "Away"]]

\* SharedData::sign_off_all_staff: the events it returns
RECURSIVE sign_off_events(_, _)
sign_off_events(staff, sign_off_time) ==
    IF staff = <<>>
    THEN <<>>
    ELSE (IF Head(staff).status = "Working"
          THEN << StatusChange(sign_off_time, Head(staff).uuid, "Away") >>
          ELSE <<>>)
         \o sign_off_events(Tail(staff), sign_off_time)

\* for eventt in sign_off_events { shared.log_eventt(eventt) }
RECURSIVE log_all(_, _)
log_all(table, new_events) ==
    IF new_events = <<>>
    THEN table
    ELSE log_all(log_eventt(table, Head(new_events)), Tail(new_events))

\* ------------------------------------------------------------------------
\* The application: messages handled by Stechuhr::update
\* ------------------------------------------------------------------------

AaronPin == Repeat("1", PIN_LENGTH)

AaronCardid == Repeat("1", CARDID_LENGTH)

BeeronPin == Repeat("2", PIN_LENGTH)

BeeronCardid == Repeat("2", CARDID_LENGTH)

\* the readings of the clock: 05:59:59, 05:59:59.5 and 06:00:00
AppTimes ==
    { At(0, _55959am), At(0, _55959am) + 1, At(0, _55959am + 1) }

\* what is typed into the break input
BreakInputs ==
    { AaronPin, <<" ">> \o AaronPin \o <<" ">>, BeeronCardid,
      Repeat("3", PIN_LENGTH), Repeat("1", 3) }

\* what is typed into the fields of a staff row
NameInputs == {""}

PinInputs == { Repeat("3", PIN_LENGTH), <<"3", "3", "3", "!">> }

CardidInputs == { Repeat("3", 9) }

\* the rows of which the fields are edited
EditedRows == {1}

\* what is typed into the row of a new member
EmptyRow == [name |-> "", pin |-> <<>>, cardid |-> <<>>]

NewRows ==
    { [name |-> "Ceeron", pin |-> Repeat("4", PIN_LENGTH),
       cardid |-> Repeat("4", CARDID_LENGTH)] }

\* StaffMemberState of a member
StaffMemberState(name_value, pin_value, cardid_value, is_visible) ==
    [name_value |-> name_value, pin_value |-> pin_value,
     cardid_value |-> cardid_value, is_visible |-> is_visible]

\* StaffState::from(staff)
StaffState_from(staff) ==
    [i \in 1..Len(staff) |->
        StaffMemberState(staff[i].name, staff[i].pin, staff[i].cardid,
                         staff[i].is_visible)]

\* the two members of setup_testdb
InitialStaff ==
    << StaffMemberOf(OwnUuid, "Aaron", AaronPin, AaronCardid, "Away", TRUE),
       StaffMemberOf(OtherUuid, "Beeron", BeeronPin, BeeronCardid, "Away", TRUE) >>

\* the events table when the application starts: the day-boundary event of
\* the day, and in one of them a StatusChange written at 05:00:00
InitialTables ==
    { insert_event(<<>>, PlainEvent(At(0, _55959am), "6am")),
      insert_event(insert_event(<<>>, PlainEvent(At(0, _55959am), "6am")),
                   StatusChange(At(0, 5 * SECS_PER_HOUR), OwnUuid, "Working")) }

\* db::load_state in Stechuhr::new, on the events as load_events returned them
load_state(staff, log, current_time) ==
    [i \in 1..Len(staff) |->
        [staff[i] EXCEPT !.status =
            staff_member_compute_status(
                DBStaffMember(staff[i].uuid, staff[i].name, staff[i].is_visible),
                log, current_time).status]]

\* the latest reading of the clock that the state records
Clock ==
    LET stamps == { app_events[i].created_at :
                      i \in { k \in 1..Len(app_events) : app_events[k].kind # "6am" } }
                  \cup {app_current_time}
    IN  CHOOSE t \in stamps : \A u \in stamps : u <= t

\* Local::now()
Nows == { t \in AppTimes : t >= Clock }

\* one more message is handled, unless the application has panicked or
\* has exited
Receive ==
    /\ app_result # "Panic"
    /\ ~ app_should_exit
    /\ app_messages > 0
    /\ app_messages' = app_messages - 1

\* Stechuhr::new
Started ==
    /\ AllocIdle
    /\ EvalIdle
    /\ StatusIdle
    /\ LogIdle
    /\ ReportIdle
    /\ MonthIdle
    /\ LoopIdle
    /\ HeapIdle
    /\ app_current_time = At(0, _55959am)
    /\ app_events \in InitialTables
    /\ \E log \in load_events(app_events) :
          app_staff = load_state(InitialStaff, log, app_current_time)
    /\ app_staff_table =
          [i \in 1..Len(InitialStaff) |->
              StaffRow(InitialStaff[i].uuid, InitialStaff[i].name, InitialStaff[i].pin,
                       InitialStaff[i].cardid, InitialStaff[i].is_visible, TRUE)]
    /\ app_break_input_value = <<>>
    /\ app_break_input_uuid = NoUuid
    /\ app_member_states = StaffState_from(InitialStaff)
    /\ app_new_row = EmptyRow
    /\ app_delete_idx = 0
    /\ app_result = "Ok"
    /\ app_prompt_shown = FALSE
    /\ app_should_exit = FALSE
    /\ app_active_tab = "Timetrack"
    /\ app_authorized = FALSE

InitApp ==
    /\ Started
    /\ app_messages = MaxMessages

\* Tab::update: the result of update_result goes to handle_result
Handled(result) ==
    /\ app_result' = result
    /\ \E now \in Nows : app_events' = handle_result(app_events, result, now)

\* SharedData::handle_result shows the prompt for an Err; the handlers of
\* the tabs leave should_exit alone
TabUpdate ==
    /\ app_prompt_shown' = (app_prompt_shown \/ app_result' \notin {"Ok", "Panic"})
    /\ UNCHANGED <<app_should_exit, app_active_tab, app_authorized>>

\* Message::Tick(local_time)
Tick ==
    /\ Receive
    /\ \E local_time \in Nows :
        /\ app_current_time' = local_time
        /\ app_staff' =
              IF local_time % TICKS_PER_DAY = _55959am * TicksPerSecond
              THEN sign_off_all_staff(app_staff)
              ELSE app_staff
    /\ UNCHANGED <<app_staff_table, app_events, app_break_input_value,
                   app_break_input_uuid, app_member_states, app_new_row,
                   app_delete_idx, app_result, app_prompt_shown, app_should_exit,
                   app_active_tab, app_authorized>>
    /\ UNCHANGED <<allocVars, evalVars, statusVars, logVars, reportVars, monthVars, loopVars, heapVars>>

\* TimetrackMessage::ChangeBreakInput(value)
ChangeBreakInput ==
    /\ Receive
    /\ \E value \in BreakInputs : app_break_input_value' = value
    /\ Handled("Ok")
    /\ UNCHANGED <<app_current_time, app_staff, app_staff_table,
                   app_break_input_uuid, app_member_states, app_new_row,
                   app_delete_idx>>
    /\ UNCHANGED <<allocVars, evalVars, statusVars, logVars, reportVars, monthVars, loopVars, heapVars>>
    /\ TabUpdate

\* TimetrackMessage::SubmitBreakInput
SubmitBreakInput ==
    /\ Receive
    /\ LET input == trim(app_break_input_value)
           found == get_by_pin_or_card_id(app_staff, input)
       IN  IF Len(input) = PIN_LENGTH \/ Len(input) = CARDID_LENGTH
           THEN IF found # 0
                THEN IF app_staff[found].is_visible
                     THEN /\ app_break_input_uuid' = app_staff[found].uuid
                          /\ UNCHANGED app_break_input_value
                          /\ Handled("Ok")
                     ELSE /\ app_break_input_value' = <<>>
                          /\ UNCHANGED app_break_input_uuid
                          /\ Handled("Str")
                ELSE /\ app_break_input_value' = <<>>
                     /\ UNCHANGED app_break_input_uuid
                     /\ Handled("Str")
           ELSE /\ app_break_input_value' = <<>>
                /\ UNCHANGED app_break_input_uuid
                /\ Handled("Str")
    /\ UNCHANGED <<app_current_time, app_staff, app_staff_table,
                   app_member_states, app_new_row, app_delete_idx>>
    /\ UNCHANGED <<allocVars, evalVars, statusVars, logVars, reportVars, monthVars, loopVars, heapVars>>
    /\ TabUpdate

handle_confirm_submit_break_input_NoEvent ==
    LET idx == get_by_uuid_mut(app_staff, app_break_input_uuid)
    IN  /\ app_break_input_uuid # NoUuid
        /\ idx # 0
        /\ app_staff' = [app_staff EXCEPT ![idx].status = toggle(app_staff[idx].status)]
        /\ app_break_input_uuid' = NoUuid
        /\ app_break_input_value' = <<>>
        /\ app_result' = "Ok"
        /\ UNCHANGED app_events

\* TimetrackTab::handle_confirm_submit_break_input, followed by handle_result
handle_confirm_submit_break_input ==
    LET idx == get_by_uuid_mut(app_staff, app_break_input_uuid)
    IN  IF app_break_input_uuid # NoUuid
        THEN IF idx # 0
             THEN LET new_status == toggle(app_staff[idx].status)
                  IN  /\ app_staff' = [app_staff EXCEPT ![idx].status = new_status]
                      /\ \E now \in Nows :
                            app_events' = log_eventt(app_events,
                                StatusChange(now, app_break_input_uuid, new_status))
                      /\ app_break_input_uuid' = NoUuid
                      /\ app_break_input_value' = <<>>
                      /\ app_result' = "Ok"
             ELSE \* expect("uuid does not yield a staff member")
                  /\ app_result' = "Panic"
                  /\ UNCHANGED <<app_staff, app_events, app_break_input_uuid,
                                 app_break_input_value>>
        ELSE /\ app_result' = "Ok"
             /\ UNCHANGED <<app_staff, app_events, app_break_input_uuid,
                            app_break_input_value>>

\* TimetrackMessage::ConfirmSubmitBreakInput, and the Enter key
ConfirmSubmitBreakInput ==
    /\ Receive
    /\ handle_confirm_submit_break_input
    /\ UNCHANGED <<app_current_time, app_staff_table, app_member_states,
                   app_new_row, app_delete_idx>>
    /\ UNCHANGED <<allocVars, evalVars, statusVars, logVars, reportVars, monthVars, loopVars, heapVars>>
    /\ TabUpdate

\* TimetrackMessage::CancelSubmitBreakInput
CancelSubmitBreakInput ==
    /\ Receive
    /\ app_break_input_uuid' = NoUuid
    /\ app_break_input_value' = <<>>
    /\ Handled("Ok")
    /\ UNCHANGED <<app_current_time, app_staff, app_staff_table,
                   app_member_states, app_new_row, app_delete_idx>>
    /\ UNCHANGED <<allocVars, evalVars, statusVars, logVars, reportVars, monthVars, loopVars, heapVars>>
    /\ TabUpdate

\* ManagementMessage::ChangeName(idx, new_name), ChangePIN(idx, new_pin) and
\* ChangeCardID(idx, new_cardid); idx counts from 1
ChangeRow ==
    /\ Receive
    /\ \E idx \in EditedRows \cup {Len(app_member_states) + 1} :
          IF idx \in 1..Len(app_member_states)
          THEN /\ \/ \E new_name \in NameInputs :
                        app_member_states' =
                            [app_member_states EXCEPT ![idx].name_value = new_name]
                  \/ \E new_pin \in PinInputs :
                        app_member_states' =
                            [app_member_states EXCEPT ![idx].pin_value = new_pin]
                  \/ \E new_cardid \in CardidInputs :
                        app_member_states' =
                            [app_member_states EXCEPT ![idx].cardid_value = new_cardid]
               /\ Handled("Ok")
          ELSE /\ UNCHANGED app_member_states
               /\ Handled("IndexError")
    /\ UNCHANGED <<app_current_time, app_staff, app_staff_table,
                   app_break_input_value, app_break_input_uuid, app_new_row,
                   app_delete_idx>>
    /\ UNCHANGED <<allocVars, evalVars, statusVars, logVars, reportVars, monthVars, loopVars, heapVars>>
    /\ TabUpdate

\* StaffState::submit on the member states `states`, followed by
\* handle_result
submit(states, idx) ==
    IF idx \notin 1..Len(states) \/ idx \notin 1..Len(app_staff)
    THEN /\ UNCHANGED <<app_staff, app_staff_table>>
         /\ Handled("IndexError")
    ELSE LET state == states[idx]
             result == validate(state.name_value, state.pin_value, state.cardid_value)
             edited == [app_staff[idx] EXCEPT !.name = state.name_value,
                                              !.pin = state.pin_value,
                                              !.cardid = state.cardid_value,
                                              !.is_visible = state.is_visible]
         IN  IF result # "Ok"
             THEN /\ UNCHANGED <<app_staff, app_staff_table>>
                  /\ Handled(result)
             ELSE /\ app_staff' = [app_staff EXCEPT ![idx] = edited]
                  /\ app_staff_table' = save_staff_member(app_staff_table, edited)
                  /\ app_result' = "Ok"
                  /\ \E now \in Nows :
                        app_events' = create_event(app_events, "Info", now)

\* ManagementMessage::SubmitRow(idx)
SubmitRow ==
    /\ Receive
    /\ \E idx \in 1..(Len(app_member_states) + 1) : submit(app_member_states, idx)
    /\ UNCHANGED <<app_current_time, app_break_input_value, app_break_input_uuid,
                   app_member_states, app_new_row, app_delete_idx>>
    /\ UNCHANGED <<allocVars, evalVars, statusVars, logVars, reportVars, monthVars, loopVars, heapVars>>
    /\ TabUpdate

\* ManagementMessage::ToggleVisible(idx, is_visible)
ToggleVisible ==
    /\ Receive
    /\ \E idx \in 1..(Len(app_member_states) + 1), is_visible \in BOOLEAN :
          IF idx \in 1..Len(app_member_states)
          THEN /\ app_member_states' =
                      [app_member_states EXCEPT ![idx].is_visible = is_visible]
               /\ submit(app_member_states', idx)
          ELSE /\ UNCHANGED <<app_member_states, app_staff, app_staff_table>>
               /\ Handled("IndexError")
    /\ UNCHANGED <<app_current_time, app_break_input_value, app_break_input_uuid,
                   app_new_row, app_delete_idx>>
    /\ UNCHANGED <<allocVars, evalVars, statusVars, logVars, reportVars, monthVars, loopVars, heapVars>>
    /\ TabUpdate

\* ManagementMessage::DeleteRow(idx)
DeleteRow ==
    /\ Receive
    /\ \E idx \in 1..(Len(app_member_states) + 1) : app_delete_idx' = idx
    /\ Handled("Ok")
    /\ UNCHANGED <<app_current_time, app_staff, app_staff_table,
                   app_break_input_value, app_break_input_uuid,
                   app_member_states, app_new_row>>
    /\ UNCHANGED <<allocVars, evalVars, statusVars, logVars, reportVars, monthVars, loopVars, heapVars>>
    /\ TabUpdate

\* ManagementMessage::CancelDeleteRow
CancelDeleteRow ==
    /\ Receive
    /\ app_delete_idx' = 0
    /\ Handled("Ok")
    /\ UNCHANGED <<app_current_time, app_staff, app_staff_table,
                   app_break_input_value, app_break_input_uuid,
                   app_member_states, app_new_row>>
    /\ UNCHANGED <<allocVars, evalVars, statusVars, logVars, reportVars, monthVars, loopVars, heapVars>>
    /\ TabUpdate

\* the sequence without its element idx
Remove(seq, idx) == SubSeq(seq, 1, idx - 1) \o SubSeq(seq, idx + 1, Len(seq))

\* ManagementMessage::ConfirmDeleteRow, with StaffState::delete_row
ConfirmDeleteRow ==
    /\ Receive
    /\ IF app_delete_idx # 0
       THEN IF app_delete_idx > Len(app_member_states)
            THEN /\ UNCHANGED <<app_member_states, app_staff, app_staff_table,
                                app_delete_idx>>
                 /\ Handled("IndexError")
            ELSE /\ app_member_states' = Remove(app_member_states, app_delete_idx)
                 /\ app_staff' = Remove(app_staff, app_delete_idx)
                 /\ app_staff_table' =
                        delete_staff_member(app_staff_table, app_staff[app_delete_idx])
                 /\ app_delete_idx' = 0
                 /\ Handled("Ok")
       ELSE /\ UNCHANGED <<app_member_states, app_staff, app_staff_table,
                           app_delete_idx>>
            /\ Handled("Ok")
    /\ UNCHANGED <<app_current_time, app_break_input_value, app_break_input_uuid,
                   app_new_row>>
    /\ UNCHANGED <<allocVars, evalVars, statusVars, logVars, reportVars, monthVars, loopVars, heapVars>>
    /\ TabUpdate

\* ManagementMessage::ChangeNewRow(name, pin, cardid)
ChangeNewRow ==
    /\ Receive
    /\ \E row \in NewRows : app_new_row' = row
    /\ Handled("Ok")
    /\ UNCHANGED <<app_current_time, app_staff, app_staff_table,
                   app_break_input_value, app_break_input_uuid,
                   app_member_states, app_delete_idx>>
    /\ UNCHANGED <<allocVars, evalVars, statusVars, logVars, reportVars, monthVars, loopVars, heapVars>>
    /\ TabUpdate

\* ManagementMessage::SubmitNewRow, with StaffState::submit_new_row
SubmitNewRow ==
    /\ Receive
    \* the credentials typed are not those of another member
    /\ get_by_pin_or_card_id(app_staff, app_new_row.pin) = 0
    /\ get_by_pin_or_card_id(app_staff, app_new_row.cardid) = 0
    /\ LET result == validate(app_new_row.name, app_new_row.pin, app_new_row.cardid)
           inserted == insert_staff(app_staff_table, app_new_row.name,
                                    app_new_row.pin, app_new_row.cardid)
           row == inserted[Len(inserted)]
       IN  IF result # "Ok"
           THEN /\ UNCHANGED <<app_staff, app_staff_table, app_member_states,
                               app_new_row>>
                /\ Handled(result)
           ELSE /\ app_staff_table' = inserted
                /\ app_member_states' =
                      Append(app_member_states,
                             StaffMemberState(row.name, row.pin, row.cardid, TRUE))
                /\ app_staff' =
                      Append(app_staff,
                             StaffMemberOf(row.uuid, row.name, row.pin, row.cardid,
                                           "Away", row.is_visible))
                /\ app_new_row' = EmptyRow
                /\ app_result' = "Ok"
                /\ \E now \in Nows :
                      app_events' = create_event(app_events, "Info", now)
    /\ UNCHANGED <<app_current_time, app_break_input_value, app_break_input_uuid,
                   app_delete_idx>>
    /\ UNCHANGED <<allocVars, evalVars, statusVars, logVars, reportVars, monthVars, loopVars, heapVars>>
    /\ TabUpdate

\* ManagementMessage::EndEvent
EndEvent ==
    /\ Receive
    /\ \E sign_off_time \in Nows :
        \E now \in { t \in AppTimes : t >= sign_off_time } :
            app_events' =
                create_event(log_all(app_events,
                                     sign_off_events(app_staff, sign_off_time)),
                             "EventOver", now)
    /\ app_staff' = sign_off_all_staff(app_staff)
    /\ app_result' = "Ok"
    /\ UNCHANGED <<app_current_time, app_staff_table, app_break_input_value,
                   app_break_input_uuid, app_member_states, app_new_row,
                   app_delete_idx>>
    /\ UNCHANGED <<allocVars, evalVars, statusVars, logVars, reportVars, monthVars, loopVars, heapVars>>
    /\ TabUpdate

\* evaluate_hours_for_month: the Info event logged when the evaluation
\* starts; a failed evaluation goes to handle_result
EvaluateHoursForMonth ==
    /\ Receive
    /\ \E now \in Nows, result \in {"Ok", "Statistics"} :
        \E later \in { t \in AppTimes : t >= now } :
            /\ app_events' =
                  handle_result(create_event(app_events, "Info", now), result, later)
            /\ app_result' = result
    /\ UNCHANGED <<app_current_time, app_staff, app_staff_table,
                   app_break_input_value, app_break_input_uuid,
                   app_member_states, app_new_row, app_delete_idx>>
    /\ UNCHANGED <<allocVars, evalVars, statusVars, logVars, reportVars, monthVars, loopVars, heapVars>>
    /\ TabUpdate

\* a guard of ExitApplication that never finds a member Working
any_working_Never(staff) == FALSE

\* self.shared.staff.iter().any(|staff_member| staff_member.status == Working)
any_working(staff) == \E i \in 1..Len(staff) : staff[i].status = "Working"

\* Message::ExitApplication; when save_staff fails at a member, the members
\* before it are saved
ExitApplication ==
    /\ Receive
    /\ IF any_working(app_staff)
       THEN /\ app_prompt_shown' = TRUE
            /\ UNCHANGED <<app_should_exit, app_staff_table, app_events, app_result>>
       ELSE \/ /\ app_staff_table' = save_staff(app_staff_table, app_staff)
               /\ app_should_exit' = TRUE
               /\ UNCHANGED <<app_prompt_shown, app_events, app_result>>
            \/ /\ \E saved \in 0..(Len(app_staff) - 1) :
                     app_staff_table' =
                         save_staff(app_staff_table, SubSeq(app_staff, 1, saved))
               /\ Handled("Diesel")
               /\ app_prompt_shown' = TRUE
               /\ UNCHANGED app_should_exit
    /\ UNCHANGED <<app_current_time, app_staff, app_break_input_value,
                   app_break_input_uuid, app_member_states, app_new_row,
                   app_delete_idx, app_active_tab, app_authorized>>
    /\ UNCHANGED <<allocVars, evalVars, statusVars, logVars, reportVars, monthVars, loopVars, heapVars>>

\* Message::ExitPrompt
ExitPrompt ==
    /\ Receive
    /\ app_prompt_shown' = FALSE
    /\ UNCHANGED <<app_current_time, app_staff, app_staff_table, app_events,
                   app_break_input_value, app_break_input_uuid,
                   app_member_states, app_new_row, app_delete_idx, app_result,
                   app_should_exit, app_active_tab, app_authorized>>
    /\ UNCHANGED <<allocVars, evalVars, statusVars, logVars, reportVars, monthVars, loopVars, heapVars>>

NextApp ==
    \/ Tick
    \/ ExitApplication
    \/ ExitPrompt
    \/ ChangeBreakInput
    \/ SubmitBreakInput
    \/ ConfirmSubmitBreakInput
    \/ CancelSubmitBreakInput
    \/ ChangeRow
    \/ SubmitRow
    \/ ToggleVisible
    \/ DeleteRow
    \/ CancelDeleteRow
    \/ ConfirmDeleteRow
    \/ ChangeNewRow
    \/ SubmitNewRow
    \/ EndEvent
    \/ EvaluateHoursForMonth

SpecApp == InitApp /\ [][NextApp]_vars

\* ------------------------------------------------------------------------
\* Claims on the application
\* ------------------------------------------------------------------------

\* the rows of the events table that a step inserted
Inserted == { i \in 1..Len(app_events') : i > Len(app_events) }

\* C22: whatever message the application handles, the events table only
\* grows: every row it held is still there with its id, created_at and
\* payload, and every inserted row has an id greater than the id of every
\* row that was in the table before it.
C22_AppendOnlyLog ==
    [][ /\ Len(app_events') >= Len(app_events)
        /\ SubSeq(app_events', 1, Len(app_events)) = app_events
        /\ \A i \in Inserted : \A j \in 1..(i - 1) :
              app_events'[j].id < app_events'[i].id ]_vars

\* the event was ended with a member at work, then an evaluation failed:
\* four rows were added to the two of the start
C22_Witness ==
    /\ Len(app_events) = 6
    /\ [i \in 1..6 |-> app_events[i].kind]
          = <<"6am", "StatusChange", "StatusChange", "EventOver", "Info", "Error">>
    /\ [i \in 1..6 |-> app_events[i].id] = <<1, 2, 3, 4, 5, 6>>

\* the ModelError that the claim assigns to the fields of a staff row
FieldsError(state) ==
    IF state.name_value = ""
    THEN "EmptyName"
    ELSE IF ~ (Len(state.pin_value) = 4
               /\ \A i \in 1..Len(state.pin_value) : state.pin_value[i] \in AlnumChars)
         THEN "ParsePIN"
         ELSE IF ~ (Len(state.cardid_value) = 10
                    /\ \A i \in 1..Len(state.cardid_value) :
                          state.cardid_value[i] \in DigitChars)
              THEN "ParseCardid"
              ELSE "Ok"

\* the step submits the row idx, by SubmitRow or by ToggleVisible
SubmitsRow(idx) ==
    \/ SubmitRow /\ submit(app_member_states, idx)
    \/ ToggleVisible /\ submit(app_member_states', idx)
          /\ \A k \in 1..Len(app_member_states) :
                k # idx => app_member_states'[k] = app_member_states[k]

\* C25: submitting a staff row with an empty name, a PIN that is not 4
\* alphanumeric characters or a card id that is not 10 digits fails with
\* EmptyName, else ParsePIN, else ParseCardid, and shared.staff and the
\* staff table are left as they were.
C25_InvalidEditRejected ==
    [][ \A idx \in 1..Len(app_member_states) :
            (SubmitsRow(idx) /\ FieldsError(app_member_states'[idx]) # "Ok")
            => /\ app_result' = FieldsError(app_member_states'[idx])
               /\ app_staff' = app_staff
               /\ app_staff_table' = app_staff_table ]_vars

\* a row with a malformed PIN and a malformed card id was submitted: the
\* error is the one of the PIN, the member keeps PIN and card id
C25_Witness ==
    /\ app_result = "ParsePIN"
    /\ Len(app_member_states) = 2
    /\ app_member_states[1].pin_value = <<"3", "3", "3", "!">>
    /\ app_member_states[1].cardid_value = Repeat("3", 9)
    /\ app_staff[1].pin = AaronPin
    /\ app_staff[1].cardid = AaronCardid
    /\ app_staff_table[1].pin = AaronPin
    /\ app_staff_table[1].cardid = AaronCardid
    /\ app_events[Len(app_events)].kind = "Error"

\* the members whose PIN or card id is `value`
HoldersOf(value) ==
    { i \in 1..Len(app_staff) :
        app_staff[i].pin = value \/ app_staff[i].cardid = value }

\* C26: SubmitBreakInput on the PIN or card id of a visible member selects
\* that member, and ConfirmSubmitBreakInput on that selection toggles the
\* status of exactly that member, appends exactly one StatusChange with the
\* member's uuid and the new status, leaves every other member as it was
\* and clears selection and input.
C26_ToggleByPin ==
    [][ \A m \in HoldersOf(app_break_input_value) :
          app_staff[m].is_visible =>
            /\ SubmitBreakInput =>
                  /\ app_break_input_uuid' = app_staff[m].uuid
                  /\ app_break_input_value' = app_break_input_value
                  /\ app_staff' = app_staff
                  /\ app_events' = app_events
            /\ (ConfirmSubmitBreakInput /\ app_break_input_uuid = app_staff[m].uuid) =>
                  /\ app_staff' =
                        [app_staff EXCEPT ![m].status =
                            IF app_staff[m].status = "Away" THEN "Working" ELSE "Away"]
                  /\ Len(app_events') = Len(app_events) + 1
                  /\ SubSeq(app_events', 1, Len(app_events)) = app_events
                  /\ app_events'[Len(app_events')].kind = "StatusChange"
                  /\ app_events'[Len(app_events')].uuid = app_staff[m].uuid
                  /\ app_events'[Len(app_events')].status = app_staff'[m].status
                  /\ app_break_input_uuid' = NoUuid
                  /\ app_break_input_value' = <<>> ]_vars

\* Beeron, Away at the start, has toggled to Working with the card: the
\* StatusChange is the newest row, Aaron is as loaded
C26_Witness ==
    /\ app_messages = 0
    /\ Len(app_events) = 3
    /\ app_events[2].kind = "StatusChange" /\ app_events[2].uuid = OwnUuid
    /\ app_events[3] = WorkEventT(3, StatusChange(app_events[3].created_at, OtherUuid, "Working"))
    /\ app_events[3].created_at \in AppTimes
    /\ app_staff[1].status = "Working"
    /\ app_staff[2].status = "Working"
    /\ app_break_input_uuid = NoUuid
    /\ app_break_input_value = <<>>

\* C27: a Tick in the second 05:59:59 leaves no member Working, a Tick at
\* any other time leaves the staff as it was.
C27_SignOffAt55959 ==
    [][ Tick =>
          IF (app_current_time' \div TicksPerSecond) % SECS_PER_DAY = _55959am
          THEN \A i \in 1..Len(app_staff') : app_staff'[i].status = "Away"
          ELSE app_staff' = app_staff ]_vars

\* ------------------------------------------------------------------------
\* date_ext.rs and evaluate_hours_for_month : the period of a month
\* ------------------------------------------------------------------------

FirstYear == 2023

\* NaiveDate
NaiveDate(year, month, day) == [year |-> year, month |-> month, day |-> day]

\* the calendar of chrono
is_leap_year(year) ==
    (year % 4 = 0 /\ year % 100 # 0) \/ year % 400 = 0

days_in_month(year, month) ==
    IF month \in {1, 3, 5, 7, 8, 10, 12}
    THEN 31
    ELSE IF month = 2
         THEN (IF is_leap_year(year) THEN 29 ELSE 28)
         ELSE 30

\* NaiveDate::with_day(day).unwrap()
with_day(date, day) ==
    IF day \in 1..days_in_month(date.year, date.month)
    THEN [date EXCEPT !.day = day]
    ELSE [year |-> 0, month |-> 0, day |-> 0]

\* NaiveDate::succ
succ(date) ==
    IF date.day < days_in_month(date.year, date.month)
    THEN [date EXCEPT !.day = date.day + 1]
    ELSE IF date.month < 12
         THEN NaiveDate(date.year, date.month + 1, 1)
         ELSE NaiveDate(date.year + 1, 1, 1)

\* NaiveDateExt::first_dom
first_dom(date) == with_day(date, 1)

\* NaiveDateExt::last_dom: the day it passes to with_day
last_day(date) ==
    IF date.month \in {1, 3, 5, 7, 8, 10, 12}
    THEN 31
    ELSE IF date.month = 2
         THEN 28
         ELSE 30

\* NaiveDateExt::last_dom
last_dom(date) == with_day(date, last_day(date))

\* the days from the first day of FirstYear to the date
RECURSIVE days_before_year(_)
days_before_year(year) ==
    IF year <= FirstYear
    THEN 0
    ELSE days_before_year(year - 1) + (IF is_leap_year(year - 1) THEN 366 ELSE 365)

RECURSIVE days_before_month(_, _)
days_before_month(year, month) ==
    IF month <= 1
    THEN 0
    ELSE days_before_month(year, month - 1) + days_in_month(year, month - 1)

num_days(date) ==
    days_before_year(date.year) + days_before_month(date.year, date.month)
    + (date.day - 1)

\* NaiveDate::and_time(_6am), in hours since the first day of FirstYear
and_time_6am(date) == num_days(date) * 24 + 6

\* the dates that can be selected
Dates ==
    { NaiveDate(y, m, d) :
        y \in FirstYear..(FirstYear + MaxYears - 1), m \in 1..12, d \in 1..31 }

InitMonth ==
    /\ AllocIdle
    /\ EvalIdle
    /\ StatusIdle
    /\ LogIdle
    /\ ReportIdle
    /\ AppIdle
    /\ LoopIdle
    /\ HeapIdle
    /\ m_pc = "input"
    /\ m_date \in { date \in Dates : date.day <= days_in_month(date.year, date.month) }
    /\ m_start = 0
    /\ m_end = 0

\* evaluate_hours_for_month: start_time and end_time of the selected date
MonthPeriod ==
    /\ m_pc = "input"
    /\ m_pc' = "done"
    /\ m_start' = and_time_6am(first_dom(m_date))
    /\ m_end' = and_time_6am(succ(last_dom(m_date)))
    /\ UNCHANGED m_date
    /\ UNCHANGED <<allocVars, evalVars, statusVars, logVars, reportVars, appVars, loopVars, heapVars>>

NextMonth == MonthPeriod

SpecMonth == InitMonth /\ [][NextMonth]_vars

\* the first day of the month that follows the month of the date
FollowingMonth(date) ==
    IF date.month = 12
    THEN NaiveDate(date.year + 1, 1, 1)
    ELSE NaiveDate(date.year, date.month + 1, 1)

\* C23: the period evaluated for a selected date runs from 06:00 on the
\* first day of its month to 06:00 on the first day of the following month.
C23_MonthToMonth ==
    m_pc = "done" =>
        /\ m_start = and_time_6am(NaiveDate(m_date.year, m_date.month, 1))
        /\ m_end = and_time_6am(FollowingMonth(m_date))

\* C24: the DBStaffMember records that are evaluated carry no status, and
\* an evaluation over the same events and period for a staff list that
\* differs only in the status fields returns the same rows and anomalies.
C24_StatusNotRead ==
    /\ \A i \in 1..Len(visible_staff(r_staff)) :
          "status" \notin DOMAIN visible_staff(r_staff)[i]
    /\ r_pc = "restatused" => r_again = r_result

\* both members are visible, a member whose status field says Away has
\* worked in the period, the other one's says Working and has a zero row
C24_Witness ==
    /\ r_pc = "restatused"
    /\ r_result.outcome = "Ok"
    /\ Len(Visible) = 2
    /\ \E i, j \in 1..2 :
          /\ r_staff[i].status = "Away"
          /\ r_again.hours_csv[i].minutes # <<0, 0, 0>>
          /\ r_staff[j].status = "Working"
          /\ r_again.hours_csv[j].minutes = <<0, 0, 0>>
    /\ Len(r_again.soft_errors) > 0

\* C28: from_start_end_time(start, end) distributes end - start + 1 seconds,
\* the second at end is credited to the bucket of end's time of day, and the
\* interval from 05:00:00 to 05:59:59 is credited as 3600 seconds, 60 minutes.
C28_EndSecondCounted ==
    a_pc = "done" =>
        /\ Total(a_whole) = initial_seconds_remaining(a_start, a_end)
        /\ initial_seconds_remaining(a_start, a_end) = (a_end - a_start) + 1
        /\ a_whole[TimeOfDayBucket(a_end)] >= 1
        /\ (a_start % SECS_PER_DAY = 5 * SECS_PER_HOUR
            /\ a_end = a_start + SECS_PER_HOUR - 1)
           => /\ a_whole = <<3600, 0, 0>>
              /\ num_minutes(a_whole) = <<60, 0, 0>>

\* the interval from 05:00:00 to 05:59:59 of a day
C28_Witness ==
    /\ a_pc = "done"
    /\ a_start % SECS_PER_DAY = 5 * SECS_PER_HOUR
    /\ a_end % SECS_PER_DAY = 6 * SECS_PER_HOUR - 1
    /\ a_end - a_start = 3599
    /\ Total(a_whole) = 3600

\* ------------------------------------------------------------------------
\* from_start_end_time, one iteration of the while loop at a time
\* ------------------------------------------------------------------------

\* the state before the while loop is entered
InitLoop ==
    /\ AllocIdle
    /\ EvalIdle
    /\ StatusIdle
    /\ LogIdle
    /\ ReportIdle
    /\ AppIdle
    /\ MonthIdle
    /\ HeapIdle
    /\ l_pc = "loop"
    /\ l_start \in AllocTimes
    /\ l_end \in AllocTimes
    /\ l_start < l_end
    /\ l_seconds_remaining = initial_seconds_remaining(l_start, l_end)
    /\ l_sm = DurationSM_new(num_seconds_from_midnight(l_start))

\* one iteration of the while loop
LoopIteration ==
    /\ l_pc = "loop"
    /\ l_seconds_remaining > 0
    /\ LET chunk == loop_chunk(l_seconds_remaining, l_sm)
       IN  /\ l_seconds_remaining' = l_seconds_remaining - chunk
           /\ l_sm' = next_step(DurationSM_add_time(l_sm, chunk))
    /\ UNCHANGED <<l_pc, l_start, l_end>>
    /\ UNCHANGED <<allocVars, evalVars, statusVars, logVars, reportVars, appVars,
                   monthVars, heapVars>>

\* the loop condition fails
LoopExit ==
    /\ l_pc = "loop"
    /\ ~ (l_seconds_remaining > 0)
    /\ l_pc' = "done"
    /\ UNCHANGED <<l_start, l_end, l_seconds_remaining, l_sm>>
    /\ UNCHANGED <<allocVars, evalVars, statusVars, logVars, reportVars, appVars,
                   monthVars, heapVars>>

NextLoop == LoopIteration \/ LoopExit

SpecLoop == InitLoop /\ [][NextLoop]_vars

\* the thread that runs the loop keeps running
SpecLoopFair == SpecLoop /\ WF_vars(NextLoop)

\* C29: the while loop of from_start_end_time terminates; every iteration
\* consumes at least 1 and at most seconds_remaining seconds and leaves the
\* offset within the bucket at 0, and the loop exits with seconds_remaining
\* equal to 0.
C29_LoopTerminates ==
    /\ [][ LoopIteration =>
             /\ l_seconds_remaining - l_seconds_remaining' >= 1
             /\ l_seconds_remaining - l_seconds_remaining' <= l_seconds_remaining
             /\ l_sm'.current_seconds = 0 ]_vars
    /\ [](l_pc = "done" => l_seconds_remaining = 0)
    /\ <>(l_pc = "done")

\* the loop has run from an offset within a bucket through more than a day
\* of buckets, and has left what from_start_end_time returns
C29_Witness ==
    /\ l_pc = "done"
    /\ l_seconds_remaining = 0
    /\ l_start % SECS_PER_DAY = 5 * SECS_PER_HOUR
    /\ l_end - l_start > SECS_PER_DAY
    /\ to_work_duration(l_sm) = from_start_end_time(l_start, l_end)
    /\ \A k \in 1..3 : to_work_duration(l_sm)[k] > 0

\* ------------------------------------------------------------------------
\* The reset boundary of the status computed from the log
\* ------------------------------------------------------------------------

\* 06:00:00 of the day of now, or of the day before when now is before 6
\* o'clock
SixOClockOf(now) ==
    LET day == now \div TICKS_PER_DAY
        tod == now % TICKS_PER_DAY
    IN  (IF tod >= 6 * TICKS_PER_HOUR THEN day ELSE day - 1) * TICKS_PER_DAY
            + 6 * TICKS_PER_HOUR

\* the newest StatusChange of the member is stamped at or after 06:00:00 of
\* the day of now and no EventOver follows it in the log
ChangeSinceSixOClock(uuid, log, now) ==
    LET own == { i \in 1..Len(log) : IsChangeOf(log[i], uuid) }
    IN  /\ own # {}
        /\ log[Newest(own)].created_at >= SixOClockOf(now)
        /\ \A k \in Newest(own)..Len(log) : log[k].kind # "EventOver"

\* C30: the boundary of staff_member_compute_status is 06:00 of the day of
\* current_time when its hour is at least 6 and 06:00 of the day before
\* otherwise; the newest StatusChange of a member stamped at or after that
\* boundary gives the returned status, only events stamped before it force
\* Away.
C30_BoundaryAtSixOClock ==
    s_pc = "loaded" =>
        \A m \in 1..Len(s_staff) :
            ChangeSinceSixOClock(TestStaff[m].uuid, s_log, s_now) =>
                LET own == { i \in 1..Len(s_log) :
                               IsChangeOf(s_log[i], TestStaff[m].uuid) }
                IN  s_staff[m].status = s_log[Newest(own)].status

\* ------------------------------------------------------------------------
\* Claims on ManagementMessage::EndEvent
\* ------------------------------------------------------------------------

\* the members that are Working, in the order of the staff list
WorkingMembers(staff) == SelectSeq(staff, LAMBDA member : member.status = "Working")

\* C31: handling EndEvent leaves no staff member Working, appends one
\* StatusChange to Away for each member that was Working, in the order of
\* the staff list and all with the same stamp, none for the members that
\* were Away, and one EventOver after them.
C31_EndEventSignsOff ==
    [][ EndEvent =>
          LET working == WorkingMembers(app_staff)
              before == Len(app_events)
          IN  /\ \A i \in 1..Len(app_staff') : app_staff'[i].status = "Away"
              /\ Len(app_staff') = Len(app_staff)
              /\ Len(app_events') = before + Len(working) + 1
              /\ SubSeq(app_events', 1, before) = app_events
              /\ \A k \in 1..Len(working) :
                    /\ app_events'[before + k].kind = "StatusChange"
                    /\ app_events'[before + k].status = "Away"
                    /\ app_events'[before + k].uuid = working[k].uuid
                    /\ app_events'[before + k].created_at
                          = app_events'[before + 1].created_at
              /\ app_events'[Len(app_events')].kind = "EventOver" ]_vars

\* EndEvent has signed off Aaron, who was Working, and not Beeron
C31_Witness ==
    /\ Len(app_events) = 4
    /\ app_events[2].kind = "StatusChange"
    /\ app_events[2].status = "Working"
    /\ app_events[3].kind = "StatusChange"
    /\ app_events[3].status = "Away"
    /\ app_events[3].uuid = OwnUuid
    /\ app_events[4].kind = "EventOver"
    /\ \A i \in 1..Len(app_staff) : app_staff[i].status = "Away"

\* ------------------------------------------------------------------------
\* Claims on Message::ExitApplication
\* ------------------------------------------------------------------------

\* C32: should_exit becomes true only in a step that handles
\* ExitApplication while no staff member is Working and in which save_staff
\* succeeds (the staff is saved, nothing is logged or prompted); an
\* ExitApplication handled while a member is Working leaves should_exit
\* false, shows the prompt and changes no status.
C32_ExitGuard ==
    /\ [][ (app_should_exit' /\ ~ app_should_exit) =>
             /\ ExitApplication
             /\ \A i \in 1..Len(app_staff) : app_staff[i].status # "Working"
             /\ app_staff_table' = save_staff(app_staff_table, app_staff)
             /\ app_events' = app_events
             /\ app_prompt_shown' = app_prompt_shown ]_vars
    /\ [][ (ExitApplication /\ \E i \in 1..Len(app_staff) : app_staff[i].status = "Working") =>
             /\ ~ app_should_exit'
             /\ app_prompt_shown'
             /\ app_staff' = app_staff
             /\ app_events' = app_events ]_vars

\* ExitApplication was refused with the prompt while Aaron was Working,
\* and has set should_exit after EndEvent had signed Aaron off
C32_Witness ==
    /\ app_should_exit
    /\ app_prompt_shown
    /\ app_messages = 0
    /\ Len(app_events) = 4
    /\ app_events[2].status = "Working"
    /\ app_events[4].kind = "EventOver"
    /\ \A i \in 1..Len(app_staff) : app_staff[i].status = "Away"

\* ------------------------------------------------------------------------
\* The staff in memory and the status computed from the events table
\* ------------------------------------------------------------------------

\* C33: in every state of the application the status of each staff member
\* in memory is the status that staff_member_compute_status computes for
\* the member from the events table at current_time.
C33_LiveStatusAgreesWithLog ==
    \A log \in load_events(app_events) :
        \A i \in 1..Len(app_staff) :
            app_staff[i].status =
                staff_member_compute_status(
                    DBStaffMember(app_staff[i].uuid, app_staff[i].name,
                                  app_staff[i].is_visible),
                    log, app_current_time).status

\* ------------------------------------------------------------------------
\* The events table of the application, evaluated
\* ------------------------------------------------------------------------

\* the soft errors of the evaluation of the whole log for a member who is
\* Away when the period starts; none when the evaluation panics
LogAnomaliesOf(member, log) ==
    LET evaluated == evaluate_hours_for_staff_member(
                        [uuid |-> member.uuid, name |-> member.name, status |-> "Away"],
                        log, 0)
    IN  IF evaluated.outcome = "Ok"
        THEN { evaluated.value.soft_errors[k].tag :
                 k \in 1..Len(evaluated.value.soft_errors) }
        ELSE {}

\* C34: the evaluation of an events table that the application has written
\* on top of the pre-generated _6am events reports neither AlreadyWorking
\* nor AlreadyAway for any member.
C34_NoDuplicateAnomalies ==
    \A log \in load_events(app_events) :
        \A i \in 1..Len(app_staff) :
            LogAnomaliesOf(app_staff[i], log) \cap {"AlreadyWorking", "AlreadyAway"} = {}

\* ------------------------------------------------------------------------
\* The status computed from the log and the state the evaluation reaches
\* ------------------------------------------------------------------------

\* the label that EventSM has after the events of the log, from Away
ForwardLabel(member, log) ==
    process_all(EventSM_new([uuid |-> member.uuid, name |-> member.name,
                             status |-> "Away"], NoTime),
                log)

\* C35: for a log ordered by timestamp and a current_time later than every
\* event of it, staff_member_compute_status returns for each member the
\* label, Working or Away, that EventSM has after processing the events of
\* the log in forward order, starting from Away.
C35_ReplaysAgree ==
    (/\ s_pc = "loaded"
     /\ \A i \in 1..Len(s_log) : s_log[i].created_at < s_now)
        => \A m \in 1..Len(s_staff) :
              ForwardLabel(TestStaff[m], s_log).outcome = "Ok"
                  => s_staff[m].status = ForwardLabel(TestStaff[m], s_log).sm.label.tag

\* ------------------------------------------------------------------------
\* The precondition of the allocator in the evaluation
\* ------------------------------------------------------------------------

\* C36: on a slice ordered by timestamp, from every initial state of the
\* processor, EventSM::process never calls from_start_end_time with a
\* start that is not before the end, so the assert of the allocator never
\* fails.
C36_AllocatorPreconditionKept == pc # "panicked"

\* ------------------------------------------------------------------------
\* models.rs : the orderings of WorkEventT, and a max-heap of events
\* ------------------------------------------------------------------------

\* Ord::cmp of integers and of timestamps
cmp_int(a, b) == IF a < b THEN "Less" ELSE IF a > b THEN "Greater" ELSE "Equal"

\* Ordering::then
then(first, second) == IF first # "Equal" THEN first ELSE second

\* impl Ord for WorkEventT
cmp(a, b) == then(cmp_int(b.created_at, a.created_at), cmp_int(a.id, b.id))

\* #[derive(PartialOrd)] on WorkEventT: the fields in the order of their
\* declaration, id, created_at, event; the events of the heap are all the
\* same Info event
partial_cmp(a, b) == then(cmp_int(a.id, b.id), cmp_int(a.created_at, b.created_at))

\* BinaryHeap::peek: the greatest element by Ord
peek(heap) == CHOOSE a \in heap : \A b \in heap : cmp(a, b) # "Less"

InitHeap ==
    /\ AllocIdle
    /\ EvalIdle
    /\ StatusIdle
    /\ LogIdle
    /\ ReportIdle
    /\ AppIdle
    /\ MonthIdle
    /\ LoopIdle
    /\ h_heap = {}
    /\ h_popped = <<>>

\* BinaryHeap::push of an event as insert_event returns it: the next id
Push ==
    /\ h_popped = <<>>
    /\ Cardinality(h_heap) < MaxRows
    /\ \E created_at \in 1..MaxStamp :
          h_heap' = h_heap \cup
              { WorkEventT(Cardinality(h_heap) + 1, PlainEvent(created_at, "Info")) }
    /\ UNCHANGED h_popped
    /\ UNCHANGED <<allocVars, evalVars, statusVars, logVars, reportVars, appVars,
                   monthVars, loopVars>>

\* BinaryHeap::pop
Pop ==
    /\ h_heap # {}
    /\ h_popped' = Append(h_popped, peek(h_heap))
    /\ h_heap' = h_heap \ {peek(h_heap)}
    /\ UNCHANGED <<allocVars, evalVars, statusVars, logVars, reportVars, appVars,
                   monthVars, loopVars>>

NextHeap == Push \/ Pop

SpecHeap == InitHeap /\ [][NextHeap]_vars

\* a comes before b in the order by timestamp, then identifier
EarlierEvent(a, b) ==
    \/ a.created_at < b.created_at
    \/ a.created_at = b.created_at /\ a.id < b.id

\* C38: a max-heap under the Ord of WorkEventT yields the events in
\* increasing order of (timestamp, identifier), and that Ord agrees with
\* the derived PartialOrd on every pair of events.
C38_HeapOrder ==
    /\ \A i, j \in 1..Len(h_popped) :
          i < j => EarlierEvent(h_popped[i], h_popped[j])
    /\ \A a, b \in h_heap : cmp(a, b) = partial_cmp(a, b)

\* ------------------------------------------------------------------------
\* The application with its tabs: the view of the active tab sends the
\* messages
\* ------------------------------------------------------------------------

Tabs == {"Timetrack", "Management", "Statistics"}

\* Message::TabSelected(new_tab)
TabSelected ==
    /\ Receive
    /\ \E new_tab \in Tabs : app_active_tab' = new_tab
    /\ app_authorized' = FALSE
    /\ UNCHANGED <<app_current_time, app_staff, app_staff_table, app_events,
                   app_break_input_value, app_break_input_uuid,
                   app_member_states, app_new_row, app_delete_idx, app_result,
                   app_prompt_shown, app_should_exit>>
    /\ UNCHANGED <<allocVars, evalVars, statusVars, logVars, reportVars, monthVars,
                   loopVars, heapVars>>

\* ManagementMessage::SubmitPassword, with the outcome of db::verify_password
SubmitPassword ==
    /\ Receive
    /\ \E verified \in BOOLEAN :
          IF verified
          THEN /\ app_authorized' = TRUE
               /\ Handled("Ok")
          ELSE /\ UNCHANGED app_authorized
               /\ Handled("InvalidPassword")
    /\ app_prompt_shown' = (app_prompt_shown \/ app_result' # "Ok")
    /\ UNCHANGED <<app_current_time, app_staff, app_staff_table,
                   app_break_input_value, app_break_input_uuid,
                   app_member_states, app_new_row, app_delete_idx,
                   app_should_exit, app_active_tab>>
    /\ UNCHANGED <<allocVars, evalVars, statusVars, logVars, reportVars, monthVars,
                   loopVars, heapVars>>

\* TimetrackTab::content is in the view
OnTimetrack == app_active_tab = "Timetrack"

\* ManagementTab::public_view is in the view
OnManagementPublic == app_active_tab = "Management" /\ ~ app_authorized

\* ManagementTab::internal_view is in the view
OnManagementInternal == app_active_tab = "Management" /\ app_authorized

InitTabs ==
    /\ Started
    /\ app_messages = MaxTabMessages

NextTabs ==
    \/ TabSelected
    \/ OnTimetrack /\ ChangeBreakInput
    \/ OnTimetrack /\ SubmitBreakInput
    \/ OnTimetrack /\ ConfirmSubmitBreakInput
    \/ OnTimetrack /\ CancelSubmitBreakInput
    \/ OnManagementPublic /\ SubmitPassword
    \/ OnManagementInternal /\ DeleteRow
    \/ OnManagementInternal /\ CancelDeleteRow
    \/ OnManagementInternal /\ ConfirmDeleteRow

SpecTabs == InitTabs /\ [][NextTabs]_vars

\* C37: whenever the time-tracking tab holds a pending selection
\* break_input_uuid = Some(u), a staff member with uuid u is in the staff
\* list, so that confirming the selection finds the member.
C37_PendingSelectionValid ==
    /\ app_break_input_uuid # NoUuid
          => get_by_uuid_mut(app_staff, app_break_input_uuid) # 0
    /\ app_result # "Panic"

====
